---- MODULE Spec2Model ----
(***************************************************************************)
(* Lock / presence / edit-request coordination of the n8n collaboration    *)
(* backend: LockManager, UserManager and RequestManager (src/routes/api.js)*)
(* and the handlers that compose them (HTTP routes in src/routes/api.js,   *)
(* socket events and the cleanup timer in the server file).                *)
(*                                                                         *)
(* Time is in milliseconds, as in the code.  Every handler runs to         *)
(* completion at one instant `now`; the clock advances between handlers    *)
(* in steps of ClockStep (exactly one timeout, the boundary of expiry) or  *)
(* LongStep (one millisecond past it).  A JavaScript Map is a set of       *)
(* [key, val] entries; opaque payload (userName, email, message, metadata) *)
(* that no branch of the code looks at is left out of the records.         *)
(*                                                                         *)
(* Spec is the whole program.  SpecLock, SpecLedger, SpecRespond,          *)
(* SpecDisconnect, SpecMaintenance, SpecCreate, SpecAcquire, SpecPresence, *)
(* SpecKeepAlive, SpecRace, SpecSessions, SpecReads and SpecOrphan run the *)
(* same actions over the inputs of one concern each, which keeps their     *)
(* state spaces exhaustively checkable.                                    *)
(***************************************************************************)
EXTENDS Integers, FiniteSets, Sequences, TLC

\* ---------------------------------------------------------------- bounds
MaxTicks == 3
MaxRequests == 2
MaxLedgerTicks == 1
MaxCoordTicks == 1
MaxCoordRequests == 1

Users == {"A", "B"}
Workflows == {"wf1", "wf2"}
Sockets == {"s1", "s2"}

\* undefined / null for identifiers (strings); an optional timestamp, flag or
\* object is the empty tuple (null) or a one-element tuple holding the value
Undefined == "undefined"
Null == "null"
None == <<>>
Some(x) == <<x>>

\* ------------------------------------------------------ program constants
lockTimeout == 5 * 60 * 1000
inactivityTimeout == 10 * 60 * 1000
requestTimeout == 5 * 60 * 1000
defaultMaxAge == 60 * 60 * 1000

ClockStep == lockTimeout
LongStep == lockTimeout + 1
MaxAges == {0, requestTimeout, defaultMaxAge}

VARIABLES now, locks, users, requests, nextId, sockets, last

vars == <<now, locks, users, requests, nextId, sockets, last>>

\* ------------------------------------------------------------ Map helpers
MapHas(m, k) == \E e \in m : e.key = k

MapGet(m, k) == IF MapHas(m, k) THEN (CHOOSE e \in m : e.key = k).val ELSE Undefined

MapDelete(m, k) == {e \in m : e.key # k}

\* mutant: the entry is added without replacing the one stored under the key
MapSet_Append(m, k, v) == m \cup {[key |-> k, val |-> v]}

MapSet(m, k, v) == MapDelete(m, k) \cup {[key |-> k, val |-> v]}

MapKeys(m) == {e.key : e \in m}

MapVals(m) == {e.val : e \in m}

\* ------------------------------------------------------------ LockManager
\* mutant: a lock counts as expired at its expiry instant already
isLockExpired_AtExpiry(lock, t) == t >= lock.expiresAt

\* mutant: a lock stays live for one more timeout after its expiresAt
isLockExpired_Late(lock, t) == t > lock.expiresAt + lockTimeout

isLockExpired(lock, t) == t > lock.expiresAt

LockInfoOf(w, lock) ==
    [workflowId |-> w, userId |-> lock.userId,
     acquiredAt |-> lock.acquiredAt, expiresAt |-> lock.expiresAt]

NewLock(w, u, t) ==
    [workflowId |-> w, userId |-> u, acquiredAt |-> t,
     expiresAt |-> t + lockTimeout, isLocked |-> TRUE]

\* mutant: the refresh stamps acquiredAt and leaves expiresAt as it was
RefreshLock_KeepExpiry(lock, t) == [lock EXCEPT !.acquiredAt = t]

\* mutant: the refresh extends expiresAt and leaves acquiredAt as it was
RefreshLock_KeepAcquiredAt(lock, t) == [lock EXCEPT !.expiresAt = t + lockTimeout]

RefreshLock(lock, t) ==
    [lock EXCEPT !.acquiredAt = t, !.expiresAt = t + lockTimeout]

\* mutant: another user's live lock is overwritten with or without force
requestLock_NoHolderCheck(L, t, w, u, force) ==
    LET currentLock == MapGet(L, w)
        acquire == [locks |-> MapSet(L, w, NewLock(w, u, t)),
                    res |-> [success |-> TRUE,
                             message |-> IF force THEN "Lock forcibly acquired"
                                                  ELSE "Lock acquired successfully",
                             lockInfo |-> NewLock(w, u, t)]]
    IN  IF MapHas(L, w) /\ ~isLockExpired(currentLock, t) /\ currentLock.userId = u
        THEN LET refreshed == RefreshLock(currentLock, t)
             IN  [locks |-> MapSet(L, w, refreshed),
                  res |-> [success |-> TRUE, message |-> "Lock refreshed",
                           lockInfo |-> LockInfoOf(w, refreshed)]]
        ELSE acquire

\* mutant: a rejected request restamps the holder's lease
requestLock_ConflictRefreshes(L, t, w, u, force) ==
    LET currentLock == MapGet(L, w)
        acquire == [locks |-> MapSet(L, w, NewLock(w, u, t)),
                    res |-> [success |-> TRUE,
                             message |-> IF force THEN "Lock forcibly acquired"
                                                  ELSE "Lock acquired successfully",
                             lockInfo |-> NewLock(w, u, t)]]
    IN  IF MapHas(L, w) /\ ~isLockExpired(currentLock, t)
        THEN IF currentLock.userId = u
             THEN LET refreshed == RefreshLock(currentLock, t)
                  IN  [locks |-> MapSet(L, w, refreshed),
                       res |-> [success |-> TRUE, message |-> "Lock refreshed",
                                lockInfo |-> LockInfoOf(w, refreshed)]]
             ELSE IF ~force
                  THEN [locks |-> MapSet(L, w, RefreshLock(currentLock, t)),
                        res |-> [success |-> FALSE, error |-> "WORKFLOW_LOCKED",
                                 message |-> "Workflow is currently being edited by another user",
                                 lockInfo |-> LockInfoOf(w, currentLock)]]
                  ELSE acquire
        ELSE acquire

requestLock(L, t, w, u, force) ==
    LET currentLock == MapGet(L, w)
        acquire == [locks |-> MapSet(L, w, NewLock(w, u, t)),
                    res |-> [success |-> TRUE,
                             message |-> IF force THEN "Lock forcibly acquired"
                                                  ELSE "Lock acquired successfully",
                             lockInfo |-> NewLock(w, u, t)]]
    IN  IF MapHas(L, w) /\ ~isLockExpired(currentLock, t)
        THEN IF currentLock.userId = u
             THEN LET refreshed == RefreshLock(currentLock, t)
                  IN  [locks |-> MapSet(L, w, refreshed),
                       res |-> [success |-> TRUE, message |-> "Lock refreshed",
                                lockInfo |-> LockInfoOf(w, refreshed)]]
             ELSE IF ~force
                  THEN [locks |-> L,
                        res |-> [success |-> FALSE, error |-> "WORKFLOW_LOCKED",
                                 message |-> "Workflow is currently being edited by another user",
                                 lockInfo |-> LockInfoOf(w, currentLock)]]
                  ELSE acquire
        ELSE acquire

\* mutant: the owner is not compared with the caller
releaseLock_NoOwnerCheck(L, w, u) ==
    IF ~MapHas(L, w)
    THEN [locks |-> L, res |-> [success |-> FALSE, error |-> "NO_LOCK"]]
    ELSE [locks |-> MapDelete(L, w),
          res |-> [success |-> TRUE, message |-> "Lock released successfully",
                   workflowId |-> w]]

releaseLock(L, w, u) ==
    IF ~MapHas(L, w)
    THEN [locks |-> L, res |-> [success |-> FALSE, error |-> "NO_LOCK"]]
    ELSE IF MapGet(L, w).userId # u
         THEN [locks |-> L, res |-> [success |-> FALSE, error |-> "UNAUTHORIZED"]]
         ELSE [locks |-> MapDelete(L, w),
               res |-> [success |-> TRUE, message |-> "Lock released successfully",
                        workflowId |-> w]]

\* mutant: the stored entry is returned without the expiry check
getWorkflowLock_NoExpiryCheck(L, t, w) ==
    IF ~MapHas(L, w)
    THEN [locks |-> L, res |-> None]
    ELSE [locks |-> L, res |-> Some(MapGet(L, w))]

getWorkflowLock(L, t, w) ==
    IF ~MapHas(L, w)
    THEN [locks |-> L, res |-> None]
    ELSE IF isLockExpired(MapGet(L, w), t)
         THEN [locks |-> MapDelete(L, w), res |-> None]
         ELSE [locks |-> L, res |-> Some(MapGet(L, w))]

getAllLocks(L, t) ==
    [locks |-> {e \in L : ~isLockExpired(e.val, t)},
     res |-> {e.val : e \in {x \in L : ~isLockExpired(x.val, t)}}]

\* mutant: the owner's locks are returned whether expired or not
getUserLocks_OwnerOnly(L, t, u) ==
    [locks |-> L, res |-> {e.val : e \in {x \in L : x.val.userId = u}}]

\* mutant: only the owner's expired locks are purged
getUserLocks_ScopedPurge(L, t, u) ==
    [locks |-> {e \in L : ~(e.val.userId = u /\ isLockExpired(e.val, t))},
     res |-> {e.val : e \in {x \in L : x.val.userId = u /\ ~isLockExpired(x.val, t)}}]

getUserLocks(L, t, u) ==
    [locks |-> {e \in L : ~isLockExpired(e.val, t)},
     res |-> {e.val : e \in {x \in L : x.val.userId = u /\ ~isLockExpired(x.val, t)}}]

\* mutant: the expired locks are reported and stay in the table
cleanupExpiredLocks_ReportOnly(L, t) ==
    [locks |-> L,
     res |-> {[workflowId |-> e.key, userId |-> e.val.userId] :
                 e \in {x \in L : isLockExpired(x.val, t)}}]

cleanupExpiredLocks(L, t) ==
    [locks |-> {e \in L : ~isLockExpired(e.val, t)},
     res |-> {[workflowId |-> e.key, userId |-> e.val.userId] :
                 e \in {x \in L : isLockExpired(x.val, t)}}]

releaseUserLocks(L, u) ==
    [locks |-> {e \in L : e.val.userId # u},
     res |-> {[workflowId |-> e.key, userId |-> u] :
                 e \in {x \in L : x.val.userId = u}}]

\* ------------------------------------------------------------ UserManager
registerUser(U, t, u, info) ==
    LET user == [userId |-> u, socketId |-> info.socketId,
                 workflowId |-> IF info.workflowId = Undefined THEN Null
                                ELSE info.workflowId,
                 connectedAt |-> t, lastActivity |-> t, isActive |-> TRUE]
    IN  [users |-> MapSet(U, u, user),
         res |-> [success |-> TRUE, user |-> user]]

updateUserActivity(U, t, u) ==
    IF MapHas(U, u)
    THEN [users |-> MapSet(U, u, [MapGet(U, u) EXCEPT !.lastActivity = t,
                                                      !.isActive = TRUE]),
          res |-> TRUE]
    ELSE [users |-> U, res |-> FALSE]

getUser(U, u) == IF MapHas(U, u) THEN Some(MapGet(U, u)) ELSE None

\* mutant: a session counts as inactive at the timeout already
isUserInactive_AtTimeout(user, t) == (t - user.lastActivity) >= inactivityTimeout

isUserInactive(user, t) == (t - user.lastActivity) > inactivityTimeout

getAllUsers(U, t) == {e.val : e \in {x \in U : ~isUserInactive(x.val, t)}}

getWorkflowUsers(U, t, w) ==
    {e.val : e \in {x \in U : x.val.workflowId = w /\ ~isUserInactive(x.val, t)}}

updateUserWorkflow(U, t, u, w) ==
    IF MapHas(U, u)
    THEN [users |-> MapSet(U, u, [MapGet(U, u) EXCEPT !.workflowId = w,
                                                      !.lastActivity = t]),
          res |-> TRUE]
    ELSE [users |-> U, res |-> FALSE]

\* mutant: the stamp is set back to the time the session was registered
updateUserMetadata_StampConnectedAt(U, t, u) ==
    IF MapHas(U, u)
    THEN [users |-> MapSet(U, u, [MapGet(U, u) EXCEPT
                                     !.lastActivity = MapGet(U, u).connectedAt]),
          res |-> TRUE]
    ELSE [users |-> U, res |-> FALSE]

\* the merged metadata is opaque payload; the stamp is what the branch leaves
updateUserMetadata(U, t, u) ==
    IF MapHas(U, u)
    THEN [users |-> MapSet(U, u, [MapGet(U, u) EXCEPT !.lastActivity = t]),
          res |-> TRUE]
    ELSE [users |-> U, res |-> FALSE]

removeUser(U, u) == [users |-> MapDelete(U, u), res |-> MapHas(U, u)]

\* mutant: the sweep measures the age of the connection, not of the activity
cleanupInactiveUsers_ByConnectedAt(U, t) ==
    [users |-> {e \in U : (t - e.val.connectedAt) <= inactivityTimeout},
     res |-> {e.key : e \in {x \in U : (t - x.val.connectedAt) > inactivityTimeout}}]

cleanupInactiveUsers(U, t) ==
    [users |-> {e \in U : ~isUserInactive(e.val, t)},
     res |-> {e.key : e \in {x \in U : isUserInactive(x.val, t)}}]

\* --------------------------------------------------------- RequestManager
isRequestExpired(request, t) == t > request.expiresAt

\* mutant: every request is stored under the same id
createRequest_FixedId(R, t, id, w, requesterId, targetUserId) ==
    LET request == [id |-> 1, workflowId |-> w, requesterId |-> requesterId,
                    targetUserId |-> targetUserId, status |-> "pending",
                    timestamp |-> t, expiresAt |-> t + requestTimeout,
                    respondedAt |-> None, response |-> None]
    IN  [requests |-> MapSet(R, 1, request), res |-> request]

createRequest(R, t, id, w, requesterId, targetUserId) ==
    LET request == [id |-> id, workflowId |-> w, requesterId |-> requesterId,
                    targetUserId |-> targetUserId, status |-> "pending",
                    timestamp |-> t, expiresAt |-> t + requestTimeout,
                    respondedAt |-> None, response |-> None]
    IN  [requests |-> MapSet(R, id, request), res |-> request]

\* mutant: a request that already left pending can be answered again
respondToRequest_NoStatusCheck(R, t, id, approved) ==
    LET request == MapGet(R, id) IN
    IF ~MapHas(R, id)
    THEN [requests |-> R, res |-> None, thrown |-> "Request not found"]
    ELSE IF isRequestExpired(request, t)
    THEN [requests |-> MapSet(R, id, [request EXCEPT !.status = "expired"]),
          res |-> None, thrown |-> "Request has expired"]
    ELSE LET updated == [request EXCEPT
                            !.status = IF approved THEN "approved" ELSE "denied",
                            !.response = Some(approved),
                            !.respondedAt = Some(t)]
         IN  [requests |-> MapSet(R, id, updated), res |-> Some(updated),
              thrown |-> Null]

\* mutant: the expiry of the request is not looked at
respondToRequest_NoExpiryCheck(R, t, id, approved) ==
    LET request == MapGet(R, id) IN
    IF ~MapHas(R, id)
    THEN [requests |-> R, res |-> None, thrown |-> "Request not found"]
    ELSE IF request.status # "pending"
    THEN [requests |-> R, res |-> None,
          thrown |-> "Request has already been responded to"]
    ELSE LET updated == [request EXCEPT
                            !.status = IF approved THEN "approved" ELSE "denied",
                            !.response = Some(approved),
                            !.respondedAt = Some(t)]
         IN  [requests |-> MapSet(R, id, updated), res |-> Some(updated),
              thrown |-> Null]

\* mutant: the expiry is looked at before the status
respondToRequest_ExpiryFirst(R, t, id, approved) ==
    LET request == MapGet(R, id) IN
    IF ~MapHas(R, id)
    THEN [requests |-> R, res |-> None, thrown |-> "Request not found"]
    ELSE IF isRequestExpired(request, t)
    THEN [requests |-> MapSet(R, id, [request EXCEPT !.status = "expired"]),
          res |-> None, thrown |-> "Request has expired"]
    ELSE IF request.status # "pending"
    THEN [requests |-> R, res |-> None,
          thrown |-> "Request has already been responded to"]
    ELSE LET updated == [request EXCEPT
                            !.status = IF approved THEN "approved" ELSE "denied",
                            !.response = Some(approved),
                            !.respondedAt = Some(t)]
         IN  [requests |-> MapSet(R, id, updated), res |-> Some(updated),
              thrown |-> Null]

\* thrown # Null: the method raised an Error with that message
respondToRequest(R, t, id, approved) ==
    LET request == MapGet(R, id) IN
    IF ~MapHas(R, id)
    THEN [requests |-> R, res |-> None, thrown |-> "Request not found"]
    ELSE IF request.status # "pending"
    THEN [requests |-> R, res |-> None,
          thrown |-> "Request has already been responded to"]
    ELSE IF isRequestExpired(request, t)
    THEN [requests |-> MapSet(R, id, [request EXCEPT !.status = "expired"]),
          res |-> None, thrown |-> "Request has expired"]
    ELSE LET updated == [request EXCEPT
                            !.status = IF approved THEN "approved" ELSE "denied",
                            !.response = Some(approved),
                            !.respondedAt = Some(t)]
         IN  [requests |-> MapSet(R, id, updated), res |-> Some(updated),
              thrown |-> Null]

getRequest(R, id) == IF MapHas(R, id) THEN Some(MapGet(R, id)) ELSE None

\* mutant: every request addressed to the user is returned, expired or not
getRequestsForUser_NoExpiryFilter(R, t, u) ==
    {e.val : e \in {x \in R : x.val.targetUserId = u}}

getRequestsForUser(R, t, u) ==
    {e.val : e \in {x \in R : x.val.targetUserId = u /\ ~isRequestExpired(x.val, t)}}

\* mutant: only requests still stored as pending are filtered by expiry
getRequestsByUser_PendingOnlyFilter(R, t, u) ==
    {e.val : e \in {x \in R : /\ x.val.requesterId = u
                               /\ ~(x.val.status = "pending" /\ isRequestExpired(x.val, t))}}

getRequestsByUser(R, t, u) ==
    {e.val : e \in {x \in R : x.val.requesterId = u /\ ~isRequestExpired(x.val, t)}}

getWorkflowRequests(R, t, w) ==
    {e.val : e \in {x \in R : x.val.workflowId = w /\ ~isRequestExpired(x.val, t)}}

\* the method catches its own errors and returns false: `caught` is the error
\* its catch block logs, `thrown` the error that reaches the caller
\* mutant: a cancel that comes after expiresAt marks the request expired
cancelRequest_ExpiryChecked(R, t, id, u) ==
    LET request == MapGet(R, id) IN
    IF ~MapHas(R, id)
    THEN [requests |-> R, res |-> FALSE, caught |-> Null, thrown |-> Null]
    ELSE IF request.requesterId # u
    THEN [requests |-> R, res |-> FALSE,
          caught |-> "Only the requester can cancel the request", thrown |-> Null]
    ELSE IF request.status # "pending"
    THEN [requests |-> R, res |-> FALSE,
          caught |-> "Can only cancel pending requests", thrown |-> Null]
    ELSE IF isRequestExpired(request, t)
    THEN [requests |-> MapSet(R, id, [request EXCEPT !.status = "expired"]),
          res |-> FALSE, caught |-> "Request has expired", thrown |-> Null]
    ELSE [requests |-> MapSet(R, id, [request EXCEPT !.status = "cancelled",
                                                     !.respondedAt = Some(t)]),
          res |-> TRUE, caught |-> Null, thrown |-> Null]

\* mutant: a request that already left pending can still be cancelled
cancelRequest_NoStatusCheck(R, t, id, u) ==
    LET request == MapGet(R, id) IN
    IF ~MapHas(R, id)
    THEN [requests |-> R, res |-> FALSE, caught |-> Null, thrown |-> Null]
    ELSE IF request.requesterId # u
    THEN [requests |-> R, res |-> FALSE,
          caught |-> "Only the requester can cancel the request", thrown |-> Null]
    ELSE [requests |-> MapSet(R, id, [request EXCEPT !.status = "cancelled",
                                                     !.respondedAt = Some(t)]),
          res |-> TRUE, caught |-> Null, thrown |-> Null]

\* mutant: a cancellation does not stamp respondedAt
cancelRequest_NoStamp(R, t, id, u) ==
    LET request == MapGet(R, id) IN
    IF ~MapHas(R, id)
    THEN [requests |-> R, res |-> FALSE, caught |-> Null, thrown |-> Null]
    ELSE IF request.requesterId # u
    THEN [requests |-> R, res |-> FALSE,
          caught |-> "Only the requester can cancel the request", thrown |-> Null]
    ELSE IF request.status # "pending"
    THEN [requests |-> R, res |-> FALSE,
          caught |-> "Can only cancel pending requests", thrown |-> Null]
    ELSE [requests |-> MapSet(R, id, [request EXCEPT !.status = "cancelled"]),
          res |-> TRUE, caught |-> Null, thrown |-> Null]

cancelRequest(R, t, id, u) ==
    LET request == MapGet(R, id) IN
    IF ~MapHas(R, id)
    THEN [requests |-> R, res |-> FALSE, caught |-> Null, thrown |-> Null]
    ELSE IF request.requesterId # u
    THEN [requests |-> R, res |-> FALSE,
          caught |-> "Only the requester can cancel the request", thrown |-> Null]
    ELSE IF request.status # "pending"
    THEN [requests |-> R, res |-> FALSE,
          caught |-> "Can only cancel pending requests", thrown |-> Null]
    ELSE [requests |-> MapSet(R, id, [request EXCEPT !.status = "cancelled",
                                                     !.respondedAt = Some(t)]),
          res |-> TRUE, caught |-> Null, thrown |-> Null]

\* mutant: the sweep flips a request past its expiresAt whatever its status
ExpireIfDue_AnyStatus(request, t) ==
    IF isRequestExpired(request, t)
    THEN [request EXCEPT !.status = "expired"]
    ELSE request

ExpireIfDue(request, t) ==
    IF isRequestExpired(request, t) /\ request.status = "pending"
    THEN [request EXCEPT !.status = "expired"]
    ELSE request

cleanupExpiredRequests(R, t) ==
    [requests |-> {[key |-> e.key, val |-> ExpireIfDue(e.val, t)] : e \in R},
     res |-> {e.key : e \in {x \in R : isRequestExpired(x.val, t)
                                        /\ x.val.status = "pending"}}]

\* mutant: the age alone decides, whatever the status
IsOldRequest_AnyStatus(request, t, maxAge) == request.timestamp < t - maxAge

IsOldRequest(request, t, maxAge) ==
    request.timestamp < t - maxAge /\ request.status # "pending"

cleanupOldRequests(R, t, maxAge) ==
    [requests |-> {e \in R : ~IsOldRequest(e.val, t, maxAge)},
     res |-> Cardinality({e \in R : IsOldRequest(e.val, t, maxAge)})]

CountStatus(R, st) == Cardinality({e \in R : e.val.status = st})

\* mutant: the statistics are a pure read of the stored statuses
requestGetStats_PureRead(R, t) ==
    [requests |-> R,
     res |-> [total |-> Cardinality(R),
              pending |-> CountStatus(R, "pending"),
              approved |-> CountStatus(R, "approved"),
              denied |-> CountStatus(R, "denied"),
              expired |-> CountStatus(R, "expired"),
              cancelled |-> CountStatus(R, "cancelled")]]

requestGetStats(R, t) ==
    LET swept == {[key |-> e.key, val |-> ExpireIfDue(e.val, t)] : e \in R} IN
    [requests |-> swept,
     res |-> [total |-> Cardinality(R),
              pending |-> CountStatus(swept, "pending"),
              approved |-> CountStatus(swept, "approved"),
              denied |-> CountStatus(swept, "denied"),
              expired |-> CountStatus(swept, "expired"),
              cancelled |-> CountStatus(swept, "cancelled")]]

\* ------------------------------------------------------------------ Init
Init ==
    /\ now = 0
    /\ locks = {}
    /\ users = {}
    /\ requests = {}
    /\ nextId = 1
    /\ sockets = [s \in Sockets |-> [state |-> "new", userId |-> Undefined,
                                     workflowId |-> Undefined]]
    /\ last = [op |-> "init"]

\* ------------------------------------------------------------------ clock
Tick(d) ==
    /\ now' = now + d
    /\ last' = [op |-> "tick"]
    /\ UNCHANGED <<locks, users, requests, nextId, sockets>>

\* ---------------------------------------------------- HTTP lock endpoints
HttpGetLocks ==
    LET r == getAllLocks(locks, now) IN
    /\ locks' = r.locks
    /\ last' = [op |-> "GET /locks", status |-> 200, data |-> r.res,
                purged |-> MapKeys(locks) \ MapKeys(r.locks)]
    /\ UNCHANGED <<now, users, requests, nextId, sockets>>

HttpGetWorkflowLock(w) ==
        LET r == getWorkflowLock(locks, now, w) IN
        /\ locks' = r.locks
        /\ last' = [op |-> "GET /locks/:workflowId", workflowId |-> w,
                    status |-> 200, data |-> r.res,
                    purged |-> MapKeys(locks) \ MapKeys(r.locks)]
        /\ UNCHANGED <<now, users, requests, nextId, sockets>>

\* mutant: the presence refresh does not depend on the result
HttpRequestLock_AlwaysRefresh(w, u, force) ==
        IF u = Undefined
        THEN /\ last' = [op |-> "POST /locks/:workflowId/request", workflowId |-> w,
                         userId |-> u, force |-> force, status |-> 400]
             /\ UNCHANGED <<now, locks, users, requests, nextId, sockets>>
        ELSE LET r == requestLock(locks, now, w, u, force) IN
             /\ locks' = r.locks
             /\ users' = updateUserActivity(users, now, u).users
             /\ last' = [op |-> "POST /locks/:workflowId/request", workflowId |-> w,
                         userId |-> u, force |-> force,
                         status |-> IF r.res.success THEN 200
                                    ELSE IF r.res.error = "WORKFLOW_LOCKED" THEN 409
                                    ELSE 400,
                         body |-> r.res,
                         currentLock |-> IF MapHas(locks, w) THEN Some(MapGet(locks, w))
                                         ELSE None]
             /\ UNCHANGED <<now, requests, nextId, sockets>>

HttpRequestLock(w, u, force) ==
        IF u = Undefined
        THEN /\ last' = [op |-> "POST /locks/:workflowId/request", workflowId |-> w,
                         userId |-> u, force |-> force, status |-> 400]
             /\ UNCHANGED <<now, locks, users, requests, nextId, sockets>>
        ELSE LET r == requestLock(locks, now, w, u, force) IN
             /\ locks' = r.locks
             /\ users' = IF r.res.success THEN updateUserActivity(users, now, u).users
                                          ELSE users
             /\ last' = [op |-> "POST /locks/:workflowId/request", workflowId |-> w,
                         userId |-> u, force |-> force,
                         status |-> IF r.res.success THEN 200
                                    ELSE IF r.res.error = "WORKFLOW_LOCKED" THEN 409
                                    ELSE 400,
                         body |-> r.res,
                         currentLock |-> IF MapHas(locks, w) THEN Some(MapGet(locks, w))
                                         ELSE None]
             /\ UNCHANGED <<now, requests, nextId, sockets>>

HttpReleaseLock(w, u) ==
        IF u = Undefined
        THEN /\ last' = [op |-> "DELETE /locks/:workflowId", workflowId |-> w,
                         userId |-> u, status |-> 400]
             /\ UNCHANGED <<now, locks, users, requests, nextId, sockets>>
        ELSE LET r == releaseLock(locks, w, u) IN
             /\ locks' = r.locks
             /\ last' = [op |-> "DELETE /locks/:workflowId", workflowId |-> w,
                         userId |-> u,
                         status |-> IF r.res.success THEN 200
                                    ELSE IF r.res.error = "NO_LOCK" THEN 404
                                    ELSE 403,
                         body |-> r.res]
             /\ UNCHANGED <<now, users, requests, nextId, sockets>>

HttpGetUserLocks(u) ==
        LET r == getUserLocks(locks, now, u) IN
        /\ locks' = r.locks
        /\ last' = [op |-> "GET /locks/user/:userId", userId |-> u,
                    status |-> 200, data |-> r.res,
                    purged |-> MapKeys(locks) \ MapKeys(r.locks),
                    purgedOwners |-> {e.val.userId : e \in locks \ r.locks}]
        /\ UNCHANGED <<now, users, requests, nextId, sockets>>

\* ---------------------------------------------------- HTTP user endpoints
HttpGetUsers ==
    /\ last' = [op |-> "GET /users", status |-> 200, data |-> getAllUsers(users, now)]
    /\ UNCHANGED <<now, locks, users, requests, nextId, sockets>>

HttpGetUser(u) ==
    LET user == getUser(users, u) IN
    /\ last' = IF user = None
               THEN [op |-> "GET /users/:userId", userId |-> u, status |-> 404]
               ELSE [op |-> "GET /users/:userId", userId |-> u, status |-> 200,
                     data |-> user[1]]
    /\ UNCHANGED <<now, locks, users, requests, nextId, sockets>>

HttpGetWorkflowUsers(w) ==
    /\ last' = [op |-> "GET /users/workflow/:workflowId", workflowId |-> w,
                status |-> 200, data |-> getWorkflowUsers(users, now, w)]
    /\ UNCHANGED <<now, locks, users, requests, nextId, sockets>>

HttpUpdateUserWorkflow(u, w) ==
    LET base == [op |-> "PUT /users/:userId/workflow", userId |-> u, workflowId |-> w]
    IN
    IF w = Undefined
    THEN /\ last' = base @@ [status |-> 400]
         /\ UNCHANGED <<now, locks, users, requests, nextId, sockets>>
    ELSE LET r == updateUserWorkflow(users, now, u, w) IN
         /\ users' = r.users
         /\ last' = base @@ [status |-> IF r.res THEN 200 ELSE 404]
         /\ UNCHANGED <<now, locks, requests, nextId, sockets>>

\* ---------------------------------- UserManager methods called directly
UpdateUserActivity(u) ==
    LET r == updateUserActivity(users, now, u) IN
    /\ users' = r.users
    /\ last' = [op |-> "updateUserActivity", userId |-> u, data |-> r.res]
    /\ UNCHANGED <<now, locks, requests, nextId, sockets>>

\* mutant: evicting a session also drops the locks of its user
CleanupInactiveUsers_DropsLocks ==
    LET r == cleanupInactiveUsers(users, now) IN
    /\ users' = r.users
    /\ locks' = {e \in locks : e.val.userId \notin r.res}
    /\ last' = [op |-> "cleanupInactiveUsers", data |-> r.res]
    /\ UNCHANGED <<now, requests, nextId, sockets>>

CleanupInactiveUsers ==
    LET r == cleanupInactiveUsers(users, now) IN
    /\ users' = r.users
    /\ last' = [op |-> "cleanupInactiveUsers", data |-> r.res]
    /\ UNCHANGED <<now, locks, requests, nextId, sockets>>

UpdateUserMetadata(u) ==
    LET r == updateUserMetadata(users, now, u) IN
    /\ users' = r.users
    /\ last' = [op |-> "updateUserMetadata", userId |-> u, data |-> r.res]
    /\ UNCHANGED <<now, locks, requests, nextId, sockets>>

\* ------------------------------------------------- HTTP request endpoints
HttpCreateRequest(w, requesterId, targetUserId) ==
        IF requesterId = Undefined
        THEN /\ last' = [op |-> "POST /requests", workflowId |-> w,
                         requesterId |-> requesterId, targetUserId |-> targetUserId,
                         status |-> 400, error |-> "Missing required fields"]
             /\ UNCHANGED <<now, locks, users, requests, nextId, sockets>>
        ELSE LET lockState == getWorkflowLock(locks, now, w) IN
             /\ locks' = lockState.locks
             /\ IF lockState.res = None \/ lockState.res[1].userId # targetUserId
                THEN /\ last' = [op |-> "POST /requests", workflowId |-> w,
                                 requesterId |-> requesterId,
                                 targetUserId |-> targetUserId, status |-> 400,
                                 error |-> "Workflow is not locked by the specified user"]
                     /\ UNCHANGED <<requests, nextId>>
                ELSE LET r == createRequest(requests, now, nextId, w,
                                            requesterId, targetUserId) IN
                     /\ requests' = r.requests
                     /\ nextId' = nextId + 1
                     /\ last' = [op |-> "POST /requests", workflowId |-> w,
                                 requesterId |-> requesterId,
                                 targetUserId |-> targetUserId, status |-> 201,
                                 data |-> r.res]
             /\ UNCHANGED <<now, users, sockets>>

\* mutant: the responder is not compared with the request's target
HttpRespond_NoTargetCheck(id, approved, u) ==
        LET request == getRequest(requests, id)
            base == [op |-> "PUT /requests/:requestId/respond", requestId |-> id,
                     approved |-> approved, userId |-> u]
        IN
        IF u = Undefined
        THEN /\ last' = base @@ [status |-> 400]
             /\ UNCHANGED <<now, locks, users, requests, nextId, sockets>>
        ELSE IF request = None
        THEN /\ last' = base @@ [status |-> 404]
             /\ UNCHANGED <<now, locks, users, requests, nextId, sockets>>
        ELSE LET r == respondToRequest(requests, now, id, approved) IN
             /\ requests' = r.requests
             /\ IF r.thrown # Null
                THEN /\ last' = base @@ [status |-> 500, error |-> r.thrown]
                     /\ UNCHANGED locks
                ELSE LET rel == releaseLock(locks, request[1].workflowId, u) IN
                     /\ locks' = IF approved THEN rel.locks ELSE locks
                     /\ last' = base @@ [status |-> 200, data |-> r.res[1],
                                         released |-> approved /\ rel.res.success]
             /\ UNCHANGED <<now, users, nextId, sockets>>

HttpRespond(id, approved, u) ==
        LET request == getRequest(requests, id)
            base == [op |-> "PUT /requests/:requestId/respond", requestId |-> id,
                     approved |-> approved, userId |-> u]
        IN
        IF u = Undefined
        THEN /\ last' = base @@ [status |-> 400]
             /\ UNCHANGED <<now, locks, users, requests, nextId, sockets>>
        ELSE IF request = None
        THEN /\ last' = base @@ [status |-> 404]
             /\ UNCHANGED <<now, locks, users, requests, nextId, sockets>>
        ELSE IF request[1].targetUserId # u
        THEN /\ last' = base @@ [status |-> 403]
             /\ UNCHANGED <<now, locks, users, requests, nextId, sockets>>
        ELSE LET r == respondToRequest(requests, now, id, approved) IN
             /\ requests' = r.requests
             /\ IF r.thrown # Null
                THEN /\ last' = base @@ [status |-> 500, error |-> r.thrown]
                     /\ UNCHANGED locks
                ELSE LET rel == releaseLock(locks, request[1].workflowId, u) IN
                     /\ locks' = IF approved THEN rel.locks ELSE locks
                     /\ last' = base @@ [status |-> 200, data |-> r.res[1],
                                         released |-> approved /\ rel.res.success]
             /\ UNCHANGED <<now, users, nextId, sockets>>

HttpCancel(id, u) ==
        LET base == [op |-> "DELETE /requests/:requestId", requestId |-> id,
                     userId |-> u]
        IN
        IF u = Undefined
        THEN /\ last' = base @@ [status |-> 400]
             /\ UNCHANGED <<now, locks, users, requests, nextId, sockets>>
        ELSE LET r == cancelRequest(requests, now, id, u) IN
             /\ requests' = r.requests
             /\ last' = base @@ [status |-> IF r.res THEN 200 ELSE 404]
             /\ UNCHANGED <<now, locks, users, nextId, sockets>>

FilterStatus(rs, status) ==
    IF status = Undefined THEN rs ELSE {r \in rs : r.status = status}

HttpGetRequests(u, w, status) ==
        LET found == IF u # Undefined /\ w # Undefined
                     THEN {r \in getRequestsForUser(requests, now, u) : r.workflowId = w}
                     ELSE IF u # Undefined
                     THEN getRequestsForUser(requests, now, u)
                     ELSE IF w # Undefined
                     THEN getWorkflowRequests(requests, now, w)
                     ELSE {}
        IN
        /\ last' = [op |-> "GET /requests", userId |-> u, workflowId |-> w,
                    filter |-> status, status |-> 200,
                    data |-> FilterStatus(found, status)]
        /\ UNCHANGED <<now, locks, users, requests, nextId, sockets>>

\* ------------------------------------------------- statistics and cleanup
HttpStats ==
    LET r == requestGetStats(requests, now) IN
    /\ requests' = r.requests
    /\ last' = [op |-> "GET /stats", status |-> 200, requests |-> r.res]
    /\ UNCHANGED <<now, locks, users, nextId, sockets>>

HttpCleanup ==
    LET expiredLocks == cleanupExpiredLocks(locks, now)
        inactiveUsers == cleanupInactiveUsers(users, now)
        expiredRequests == cleanupExpiredRequests(requests, now)
        oldRequests == cleanupOldRequests(expiredRequests.requests, now, defaultMaxAge)
    IN
    /\ locks' = expiredLocks.locks
    /\ users' = inactiveUsers.users
    /\ requests' = oldRequests.requests
    /\ last' = [op |-> "POST /cleanup", status |-> 200,
                expiredLocks |-> expiredLocks.res,
                inactiveUsers |-> inactiveUsers.res,
                expiredRequests |-> expiredRequests.res,
                oldRequestsRemoved |-> oldRequests.res]
    /\ UNCHANGED <<now, nextId, sockets>>

CleanupTimer ==
    LET expiredLocks == cleanupExpiredLocks(locks, now)
        inactiveUsers == cleanupInactiveUsers(users, now)
    IN
    /\ locks' = expiredLocks.locks
    /\ users' = inactiveUsers.users
    /\ last' = [op |-> "cleanupTimer", expiredLocks |-> expiredLocks.res,
                inactiveUsers |-> inactiveUsers.res]
    /\ UNCHANGED <<now, requests, nextId, sockets>>

\* ------------------------------- RequestManager methods called directly
CreateRequest(w, requesterId, targetUserId) ==
    LET r == createRequest(requests, now, nextId, w, requesterId, targetUserId) IN
    /\ requests' = r.requests
    /\ nextId' = nextId + 1
    /\ last' = [op |-> "createRequest", data |-> r.res]
    /\ UNCHANGED <<now, locks, users, sockets>>

RespondToRequest(id, approved) ==
    LET r == respondToRequest(requests, now, id, approved) IN
    /\ requests' = r.requests
    /\ last' = [op |-> "respondToRequest", requestId |-> id, approved |-> approved,
                data |-> r.res, thrown |-> r.thrown]
    /\ UNCHANGED <<now, locks, users, nextId, sockets>>

CancelRequest(id, u) ==
    LET r == cancelRequest(requests, now, id, u) IN
    /\ requests' = r.requests
    /\ last' = [op |-> "cancelRequest", requestId |-> id, userId |-> u,
                data |-> r.res, caught |-> r.caught, thrown |-> r.thrown]
    /\ UNCHANGED <<now, locks, users, nextId, sockets>>

GetRequests(kind, key) ==
    /\ last' = [op |-> kind, key |-> key,
                data |-> CASE kind = "getRequestsForUser" ->
                                  getRequestsForUser(requests, now, key)
                           [] kind = "getRequestsByUser" ->
                                  getRequestsByUser(requests, now, key)
                           [] kind = "getWorkflowRequests" ->
                                  getWorkflowRequests(requests, now, key)]
    /\ UNCHANGED <<now, locks, users, requests, nextId, sockets>>

CleanupExpiredRequests ==
    LET r == cleanupExpiredRequests(requests, now) IN
    /\ requests' = r.requests
    /\ last' = [op |-> "cleanupExpiredRequests", data |-> r.res]
    /\ UNCHANGED <<now, locks, users, nextId, sockets>>

RequestGetStats ==
    LET r == requestGetStats(requests, now) IN
    /\ requests' = r.requests
    /\ last' = [op |-> "getStats", data |-> r.res,
                flipped |-> {e.key : e \in requests \ r.requests}]
    /\ UNCHANGED <<now, locks, users, nextId, sockets>>

GetRequest(id) ==
    /\ last' = [op |-> "getRequest", requestId |-> id, data |-> getRequest(requests, id)]
    /\ UNCHANGED <<now, locks, users, requests, nextId, sockets>>

CleanupOldRequests(maxAge) ==
        LET r == cleanupOldRequests(requests, now, maxAge) IN
        /\ requests' = r.requests
        /\ last' = [op |-> "cleanupOldRequests", maxAge |-> maxAge,
                    removedCount |-> r.res]
        /\ UNCHANGED <<now, locks, users, nextId, sockets>>

\* ---------------------------------------------------------- socket events
Connect(s) ==
        /\ sockets[s].state = "new"
        /\ sockets' = [sockets EXCEPT ![s].state = "open"]
        /\ last' = [op |-> "connection", socket |-> s]
        /\ UNCHANGED <<now, locks, users, requests, nextId>>

Identify(s, u, w, named) ==
        /\ sockets[s].state = "open"
        /\ IF u = Undefined \/ ~named
           THEN /\ last' = [op |-> "identify", socket |-> s, userId |-> u,
                            workflowId |-> w, emit |-> "error"]
                /\ UNCHANGED <<locks, users, sockets>>
           ELSE LET reg == registerUser(users, now, u,
                                        [socketId |-> s, workflowId |-> w])
                    lockState == getWorkflowLock(locks, now, w)
                IN
                /\ users' = reg.users
                /\ sockets' = [sockets EXCEPT ![s].userId = u, ![s].workflowId = w]
                /\ locks' = IF w # Undefined THEN lockState.locks ELSE locks
                /\ last' = [op |-> "identify", socket |-> s, userId |-> u,
                            workflowId |-> w, emit |-> "identified",
                            lockState |-> IF w # Undefined THEN lockState.res ELSE None,
                            connectedUsers |-> IF w # Undefined
                                               THEN getWorkflowUsers(reg.users, now, w)
                                               ELSE {}]
        /\ UNCHANGED <<now, requests, nextId>>

SocketRequestLock(s, w, force) ==
        LET userId == sockets[s].userId IN
        /\ sockets[s].state = "open"
        /\ IF userId = Undefined
           THEN /\ last' = [op |-> "request_lock", socket |-> s, workflowId |-> w,
                            userId |-> userId, force |-> force, emit |-> "error"]
                /\ UNCHANGED <<locks, users>>
           ELSE LET r == requestLock(locks, now, w, userId, force) IN
                /\ locks' = r.locks
                /\ users' = IF r.res.success
                            THEN updateUserActivity(users, now, userId).users
                            ELSE users
                /\ last' = [op |-> "request_lock", socket |-> s, workflowId |-> w,
                            userId |-> userId, force |-> force,
                            emit |-> "lock_response", body |-> r.res]
        /\ UNCHANGED <<now, requests, nextId, sockets>>

SocketReleaseLock(s, w) ==
        LET userId == sockets[s].userId IN
        /\ sockets[s].state = "open"
        /\ IF userId = Undefined
           THEN /\ last' = [op |-> "release_lock", socket |-> s, workflowId |-> w,
                            userId |-> userId, emit |-> "error"]
                /\ UNCHANGED locks
           ELSE LET r == releaseLock(locks, w, userId) IN
                /\ locks' = r.locks
                /\ last' = [op |-> "release_lock", socket |-> s, workflowId |-> w,
                            userId |-> userId, emit |-> "lock_release_response",
                            body |-> r.res]
        /\ UNCHANGED <<now, users, requests, nextId, sockets>>

SocketRequestEditAccess(s, w) ==
        LET requesterId == sockets[s].userId
            base == [op |-> "request_edit_access", socket |-> s, workflowId |-> w,
                     requesterId |-> requesterId]
        IN
        /\ sockets[s].state = "open"
        /\ IF requesterId = Undefined
           THEN /\ last' = base @@ [emit |-> "error"]
                /\ UNCHANGED <<locks, requests, nextId>>
           ELSE LET lockState == getWorkflowLock(locks, now, w) IN
                /\ locks' = lockState.locks
                /\ IF lockState.res = None \/ ~lockState.res[1].isLocked
                   THEN /\ last' = base @@ [emit |-> "error"]
                        /\ UNCHANGED <<requests, nextId>>
                   ELSE LET r == createRequest(requests, now, nextId, w, requesterId,
                                               lockState.res[1].userId) IN
                           /\ requests' = r.requests
                        /\ nextId' = nextId + 1
                        /\ last' = base @@ [emit |-> "request_sent", data |-> r.res]
        /\ UNCHANGED <<now, users, sockets>>

SocketRespond(s, id, approved) ==
        LET userId == sockets[s].userId
            request == getRequest(requests, id)
            base == [op |-> "respond_edit_request", socket |-> s, requestId |-> id,
                     approved |-> approved, userId |-> userId]
        IN
        /\ sockets[s].state = "open"
        /\ IF request = None \/ request[1].targetUserId # userId
           THEN /\ last' = base @@ [emit |-> "error",
                                    message |-> "Invalid request or unauthorized"]
                /\ UNCHANGED <<locks, requests>>
           ELSE LET r == respondToRequest(requests, now, id, approved) IN
                /\ requests' = r.requests
                /\ IF r.thrown # Null
                   THEN /\ last' = base @@ [emit |-> "error",
                                            message |-> "Failed to respond to edit request",
                                            thrown |-> r.thrown]
                        /\ UNCHANGED locks
                   ELSE LET requesterUser == getUser(users, request[1].requesterId)
                            notified == requesterUser # None
                            rel == releaseLock(locks, request[1].workflowId, userId)
                        IN
                        /\ locks' = IF notified /\ approved THEN rel.locks ELSE locks
                        /\ last' = base @@ [emit |-> IF notified THEN "request_response"
                                                     ELSE "none",
                                            released |-> notified /\ approved
                                                         /\ rel.res.success]
        /\ UNCHANGED <<now, users, nextId, sockets>>

Heartbeat(s) ==
        LET userId == sockets[s].userId IN
        /\ sockets[s].state = "open"
        /\ userId # Undefined
        /\ users' = updateUserActivity(users, now, userId).users
        /\ last' = [op |-> "heartbeat", socket |-> s, userId |-> userId,
                    emit |-> "heartbeat_ack"]
        /\ UNCHANGED <<now, locks, requests, nextId, sockets>>

\* mutant: the session is removed only if it still belongs to this socket
Disconnect_OwnSessionOnly(s) ==
        LET userId == sockets[s].userId
            workflowId == sockets[s].workflowId
            lockState == getWorkflowLock(locks, now, workflowId)
            owns == lockState.res # None /\ lockState.res[1].isLocked
                    /\ lockState.res[1].userId = userId
        IN
        /\ sockets[s].state = "open"
        /\ sockets' = [sockets EXCEPT ![s].state = "closed"]
        /\ IF userId = Undefined
           THEN UNCHANGED <<locks, users>>
           ELSE /\ users' = IF MapHas(users, userId) /\ MapGet(users, userId).socketId = s
                            THEN removeUser(users, userId).users
                            ELSE users
                /\ locks' = IF workflowId = Undefined THEN locks
                            ELSE IF owns
                                 THEN releaseLock(lockState.locks, workflowId, userId).locks
                                 ELSE lockState.locks
        /\ last' = [op |-> "disconnect", socket |-> s, userId |-> userId,
                    workflowId |-> workflowId,
                    released |-> userId # Undefined /\ workflowId # Undefined /\ owns]
        /\ UNCHANGED <<now, requests, nextId>>

Disconnect(s) ==
        LET userId == sockets[s].userId
            workflowId == sockets[s].workflowId
            lockState == getWorkflowLock(locks, now, workflowId)
            owns == lockState.res # None /\ lockState.res[1].isLocked
                    /\ lockState.res[1].userId = userId
        IN
        /\ sockets[s].state = "open"
        /\ sockets' = [sockets EXCEPT ![s].state = "closed"]
        /\ IF userId = Undefined
           THEN UNCHANGED <<locks, users>>
           ELSE /\ users' = removeUser(users, userId).users
                /\ locks' = IF workflowId = Undefined THEN locks
                            ELSE IF owns
                                 THEN releaseLock(lockState.locks, workflowId, userId).locks
                                 ELSE lockState.locks
        /\ last' = [op |-> "disconnect", socket |-> s, userId |-> userId,
                    workflowId |-> workflowId,
                    released |-> userId # Undefined /\ workflowId # Undefined /\ owns]
        /\ UNCHANGED <<now, requests, nextId>>

\* ------------------------------------------------------- specifications
Ids == 1..MaxRequests
UserArgs == Users \cup {Undefined}
WorkflowArgs == Workflows \cup {Undefined}
SocketUser == [s \in Sockets |-> IF s = "s1" THEN "A" ELSE "B"]
OneSocket == {"s1"}
RequestInputs == {<<"wf1", "B", "A">>}
ReadKinds == {"getRequestsForUser", "getRequestsByUser", "getWorkflowRequests"}

ClockTick == now < MaxTicks * ClockStep /\ Tick(ClockStep)

\* The whole program: every handler of the HTTP router, of the socket server
\* and the cleanup timer.
Next ==
    \/ ClockTick
    \/ HttpGetLocks
    \/ \E w \in Workflows : HttpGetWorkflowLock(w)
    \/ \E w \in Workflows, u \in UserArgs, force \in BOOLEAN : HttpRequestLock(w, u, force)
    \/ \E w \in Workflows, u \in UserArgs : HttpReleaseLock(w, u)
    \/ \E u \in Users : HttpGetUserLocks(u)
    \/ HttpGetUsers
    \/ \E u \in Users : HttpGetUser(u)
    \/ \E w \in Workflows : HttpGetWorkflowUsers(w)
    \/ \E u \in Users, w \in WorkflowArgs : HttpUpdateUserWorkflow(u, w)
    \/ \E u \in Users : UpdateUserActivity(u)
    \/ \E u \in Users : UpdateUserMetadata(u)
    \/ \E w \in Workflows, rq \in UserArgs, tg \in Users :
          nextId <= MaxRequests /\ HttpCreateRequest(w, rq, tg)
    \/ \E id \in Ids, approved \in BOOLEAN, u \in UserArgs : HttpRespond(id, approved, u)
    \/ \E id \in Ids, u \in UserArgs : HttpCancel(id, u)
    \/ \E u \in UserArgs, w \in WorkflowArgs, st \in {Undefined, "pending"} :
          HttpGetRequests(u, w, st)
    \/ HttpStats
    \/ HttpCleanup
    \/ CleanupTimer
    \/ \E s \in Sockets : Connect(s)
    \/ \E s \in Sockets, u \in UserArgs, w \in WorkflowArgs, named \in BOOLEAN :
          Identify(s, u, w, named)
    \/ \E s \in Sockets, w \in Workflows, force \in BOOLEAN : SocketRequestLock(s, w, force)
    \/ \E s \in Sockets, w \in Workflows : SocketReleaseLock(s, w)
    \/ \E s \in Sockets, w \in Workflows :
          nextId <= MaxRequests /\ SocketRequestEditAccess(s, w)
    \/ \E s \in Sockets, id \in Ids, approved \in BOOLEAN : SocketRespond(s, id, approved)
    \/ \E s \in Sockets : Heartbeat(s)
    \/ \E s \in Sockets : Disconnect(s)

Spec == Init /\ [][Next]_vars

\* The lock table: the HTTP lock endpoints, the cleanup timer and the clock.
NextLock ==
    \/ ClockTick
    \/ HttpGetLocks
    \/ \E w \in Workflows : HttpGetWorkflowLock(w)
    \/ \E w \in Workflows, u \in UserArgs, force \in BOOLEAN : HttpRequestLock(w, u, force)
    \/ \E w \in Workflows, u \in UserArgs : HttpReleaseLock(w, u)
    \/ \E u \in Users : HttpGetUserLocks(u)
    \/ CleanupTimer

SpecLock == Init /\ [][NextLock]_vars

\* The request ledger: the public methods of RequestManager and the clock.
\* B asks A for access to wf1, possibly several times; cancellations and
\* reads come from either user and for either workflow.
NextLedger ==
    \/ now < MaxLedgerTicks * LongStep /\ Tick(LongStep)
    \/ \E in \in RequestInputs :
          nextId <= MaxRequests /\ CreateRequest(in[1], in[2], in[3])
    \/ \E id \in Ids, approved \in BOOLEAN : RespondToRequest(id, approved)
    \/ \E id \in Ids, u \in Users : CancelRequest(id, u)
    \/ \E kind \in ReadKinds :
          \E key \in (IF kind = "getWorkflowRequests" THEN Workflows ELSE Users) :
              GetRequests(kind, key)
    \/ CleanupExpiredRequests
    \/ \E maxAge \in MaxAges : CleanupOldRequests(maxAge)
    \/ RequestGetStats

SpecLedger == Init /\ [][NextLedger]_vars

\* The two response flows over one contested workflow: either user may hold
\* the lock on wf1, B asks A for access over HTTP, sessions are registered
\* over sockets and the response arrives over either flow; A may give the
\* lock up before answering.  Sessions are registered before the clock
\* moves; one LongStep of the clock takes every lock and request past its
\* expiry.
NextRespond ==
    \/ now < MaxCoordTicks * LongStep /\ Tick(LongStep)
    \/ \E u \in Users : HttpRequestLock("wf1", u, FALSE)
    \/ HttpReleaseLock("wf1", "A")
    \/ nextId <= MaxCoordRequests /\ HttpCreateRequest("wf1", "B", "A")
    \/ \E s \in Sockets : Connect(s)
    \/ \E s \in Sockets : now = 0 /\ Identify(s, SocketUser[s], Undefined, TRUE)
    \/ \E s \in Sockets, id \in 1..MaxCoordRequests, approved \in BOOLEAN :
          SocketRespond(s, id, approved)
    \/ \E id \in 1..MaxCoordRequests, approved \in BOOLEAN, u \in Users :
          HttpRespond(id, approved, u)

SpecRespond == Init /\ [][NextRespond]_vars

\* Socket sessions holding locks, and their disconnection.
NextDisconnect ==
    \/ now < MaxCoordTicks * LongStep /\ Tick(LongStep)
    \/ \E s \in OneSocket : Connect(s)
    \/ \E s \in OneSocket, u \in Users, w \in WorkflowArgs : Identify(s, u, w, TRUE)
    \/ \E s \in OneSocket, w \in Workflows, force \in BOOLEAN :
          SocketRequestLock(s, w, force)
    \/ \E s \in OneSocket : Disconnect(s)

SpecDisconnect == Init /\ [][NextDisconnect]_vars

\* Periodic maintenance: a lock, a request and a session age while the only
\* sweeps are those of the cleanup timer.
NextMaintenance ==
    \/ ClockTick
    \/ \E u \in Users : HttpRequestLock("wf1", u, FALSE)
    \/ nextId <= MaxCoordRequests /\ HttpCreateRequest("wf1", "B", "A")
    \/ \E s \in OneSocket : Connect(s)
    \/ \E s \in OneSocket : Identify(s, SocketUser[s], Undefined, TRUE)
    \/ \E id \in 1..MaxCoordRequests, approved \in BOOLEAN : HttpRespond(id, approved, "A")
    \/ CleanupTimer

SpecMaintenance == Init /\ [][NextMaintenance]_vars

\* The two creation flows of an edit request against locks that come and go:
\* A takes locks, B asks for access over HTTP (naming either user as target)
\* or over its socket.  The clock moves to the last live instant of a lock or
\* just past it.
NextCreate ==
    \/ \E d \in {ClockStep, LongStep} : now < MaxCoordTicks * ClockStep /\ Tick(d)
    \/ \E w \in Workflows : HttpRequestLock(w, "A", FALSE)
    \/ \E w \in Workflows, rq \in {"B", Undefined}, tg \in Users :
          nextId <= MaxCoordRequests /\ HttpCreateRequest(w, rq, tg)
    \/ \E s \in Sockets \ OneSocket : Connect(s)
    \/ \E s \in Sockets \ OneSocket : Identify(s, SocketUser[s], Undefined, TRUE)
    \/ \E s \in Sockets \ OneSocket, w \in Workflows :
          nextId <= MaxCoordRequests /\ SocketRequestEditAccess(s, w)

SpecCreate == Init /\ [][NextCreate]_vars

\* Lock requests racing over HTTP and over sockets: each handler runs to
\* completion, so a race is the two orders of two handlers at one instant.
NextAcquire ==
    \/ now < MaxCoordTicks * LongStep /\ Tick(LongStep)
    \/ \E w \in Workflows, u \in Users : HttpRequestLock(w, u, FALSE)
    \/ \E s \in Sockets : Connect(s)
    \/ \E s \in Sockets : Identify(s, SocketUser[s], Undefined, TRUE)
    \/ \E s \in Sockets, w \in Workflows : SocketRequestLock(s, w, FALSE)

SpecAcquire == Init /\ [][NextAcquire]_vars

\* Keeping a session alive: sessions registered over sockets, refreshed by
\* heartbeats and by granted lock requests, and swept by the timer.
NextKeepAlive ==
    \/ ClockTick
    \/ \E s \in Sockets : Connect(s)
    \/ \E s \in Sockets : Identify(s, SocketUser[s], Undefined, TRUE)
    \/ \E s \in Sockets : Heartbeat(s)
    \/ \E u \in Users : HttpRequestLock("wf1", u, FALSE)
    \/ CleanupTimer

SpecKeepAlive == Init /\ [][NextKeepAlive]_vars

\* The requester's cancel against the target's response over HTTP: A holds
\* wf1, B asks for access, and either user submits a response or a cancel.
NextRace ==
    \/ now < MaxCoordTicks * LongStep /\ Tick(LongStep)
    \/ HttpRequestLock("wf1", "A", FALSE)
    \/ \E tg \in Users : nextId <= MaxRequests /\ HttpCreateRequest("wf1", "B", tg)
    \/ \E id \in Ids, approved \in BOOLEAN, u \in Users : HttpRespond(id, approved, u)
    \/ \E id \in Ids, u \in Users : HttpCancel(id, u)

SpecRace == Init /\ [][NextRace]_vars

\* Two sockets that identify, possibly as the same user and possibly more
\* than once, and disconnect.
NextSessions ==
    \/ now < MaxCoordTicks * ClockStep /\ Tick(ClockStep)
    \/ \E s \in Sockets : Connect(s)
    \/ \E s \in Sockets, u \in Users : Identify(s, u, Undefined, TRUE)
    \/ \E s \in Sockets : Disconnect(s)

SpecSessions == Init /\ [][NextSessions]_vars

\* Reading the ledger: requests are created, answered or cancelled, read by
\* key and by id as they age, and deleted by the retention sweep.
NextReads ==
    \/ now < MaxLedgerTicks * LongStep /\ Tick(LongStep)
    \/ \E in \in RequestInputs :
          nextId <= MaxRequests /\ CreateRequest(in[1], in[2], in[3])
    \/ \E id \in Ids, approved \in BOOLEAN : RespondToRequest(id, approved)
    \/ \E id \in Ids : CancelRequest(id, "B")
    \/ \E kind \in ReadKinds :
          \E key \in (IF kind = "getWorkflowRequests" THEN Workflows ELSE Users) :
              GetRequests(kind, key)
    \/ \E id \in Ids : GetRequest(id)
    \/ \E maxAge \in MaxAges : CleanupOldRequests(maxAge)

SpecReads == Init /\ [][NextReads]_vars

\* Locks against presence: A may register a session, either user takes,
\* forces or releases the lock on wf1 over HTTP, with or without a session,
\* and the sweeps run as the clock advances.
NextOrphan ==
    \/ ClockTick
    \/ \E s \in OneSocket : Connect(s)
    \/ \E s \in OneSocket : Identify(s, SocketUser[s], Undefined, TRUE)
    \/ \E u \in Users, force \in BOOLEAN : HttpRequestLock("wf1", u, force)
    \/ \E u \in Users : HttpReleaseLock("wf1", u)
    \/ CleanupInactiveUsers
    \/ CleanupTimer

SpecOrphan == Init /\ [][NextOrphan]_vars

\* The presence registry: sessions registered over sockets, read and changed
\* over HTTP and through the UserManager methods, and swept by the timer.
NextPresence ==
    \/ ClockTick
    \/ \E s \in Sockets : Connect(s)
    \/ \E s \in Sockets, w \in {"wf1", Undefined} : Identify(s, SocketUser[s], w, TRUE)
    \/ HttpGetUsers
    \/ \E u \in Users : HttpGetUser(u)
    \/ \E w \in Workflows : HttpGetWorkflowUsers(w)
    \/ \E u \in Users, w \in {"wf2", Undefined} : HttpUpdateUserWorkflow(u, w)
    \/ \E u \in Users : UpdateUserActivity(u)
    \/ \E u \in Users : UpdateUserMetadata(u)
    \/ CleanupTimer

SpecPresence == Init /\ [][NextPresence]_vars

\* ================================================================ claims
LockOp == "POST /locks/:workflowId/request"
ReleaseOp == "DELETE /locks/:workflowId"

IsLive(lock, t) == t <= lock.expiresAt

EntriesFor(m, k) == {e \in m : e.key = k}

\* a step that is requestLock(w, u, force) through the HTTP adapter
IsLockStep(w, u, force) ==
    /\ last'.op = LockOp
    /\ last'.workflowId = w
    /\ last'.userId = u
    /\ last'.force = force

\* C1. Mutual exclusion: the lock table never holds two locks for one
\* workflowId, and a non-forced requestLock issued while a different user
\* owns a live lock (now <= expiresAt) fails with WORKFLOW_LOCKED (HTTP 409),
\* carries the holder's lock info and leaves the holder's lock in place.
C1_MutualExclusion ==
    [][ /\ \A w \in Workflows : Cardinality(EntriesFor(locks', w)) <= 1
        /\ \A w \in Workflows, u \in Users :
              (/\ MapHas(locks, w)
               /\ IsLive(MapGet(locks, w), now)
               /\ MapGet(locks, w).userId # u
               /\ IsLockStep(w, u, FALSE))
              => /\ last'.status = 409
                 /\ last'.body.success = FALSE
                 /\ last'.body.error = "WORKFLOW_LOCKED"
                 /\ last'.body.lockInfo = LockInfoOf(w, MapGet(locks, w))
                 /\ EntriesFor(locks', w) = EntriesFor(locks, w) ]_vars

\* a refused request met a lock that was live exactly at its expiry instant
C1_Witness ==
    /\ last.op = LockOp
    /\ last.status = 409
    /\ last.body.error = "WORKFLOW_LOCKED"
    /\ MapHas(locks, last.workflowId)
    /\ MapGet(locks, last.workflowId).userId # last.userId
    /\ MapGet(locks, last.workflowId).expiresAt = now

C3_IdempotentRefresh ==
    [][ \A w \in Workflows, u \in Users, force \in BOOLEAN :
          (/\ MapHas(locks, w)
           /\ IsLive(MapGet(locks, w), now)
           /\ MapGet(locks, w).userId = u
           /\ IsLockStep(w, u, force))
          => /\ last'.body.success = TRUE
             /\ last'.body.message = "Lock refreshed"
             /\ MapHas(locks', w)
             /\ MapGet(locks', w).userId = u
             /\ MapGet(locks', w).expiresAt = now + lockTimeout
             /\ MapGet(locks', w).expiresAt >= MapGet(locks, w).expiresAt ]_vars

\* a refresh at a later instant than the acquisition
C3_Witness ==
    /\ last.op = LockOp
    /\ last.status = 200
    /\ last.body.message = "Lock refreshed"
    /\ now > 0
    /\ MapGet(locks, last.workflowId).expiresAt = now + lockTimeout

\* C4. Expiry monotonicity: no lock returned by getWorkflowLock, getAllLocks
\* or getUserLocks has an expiresAt earlier than the time of the read.
C4_ExpiryMonotonicity ==
    /\ last.op \in {"GET /locks", "GET /locks/user/:userId"}
          => \A l \in last.data : l.expiresAt >= now
    /\ last.op = "GET /locks/:workflowId"
          => (last.data # None => last.data[1].expiresAt >= now)

\* a read that met an expired lock: it purged it and returned a live one
C4_Witness ==
    /\ last.op = "GET /locks/user/:userId"
    /\ last.purged # {}
    /\ last.data # {}

\* a step that is releaseLock(w, u) through the HTTP adapter
IsReleaseStep(w, u) ==
    /\ last'.op = ReleaseOp
    /\ last'.workflowId = w
    /\ last'.userId = u

\* C5. Release authorization: releaseLock(w, u) succeeds and deletes the lock
\* exactly when u owns the stored lock; with another owner it fails with
\* UNAUTHORIZED and with no lock it fails with NO_LOCK, the table unchanged.
C5_ReleaseAuthorization ==
    [][ \A w \in Workflows, u \in Users :
          IsReleaseStep(w, u)
          => /\ (MapHas(locks, w) /\ MapGet(locks, w).userId = u)
                   => /\ last'.body.success = TRUE
                      /\ last'.status = 200
                      /\ locks' = {e \in locks : e.key # w}
             /\ (MapHas(locks, w) /\ MapGet(locks, w).userId # u)
                   => /\ last'.body.success = FALSE
                      /\ last'.body.error = "UNAUTHORIZED"
                      /\ last'.status = 403
                      /\ locks' = locks
             /\ ~MapHas(locks, w)
                   => /\ last'.body.success = FALSE
                      /\ last'.body.error = "NO_LOCK"
                      /\ last'.status = 404
                      /\ locks' = locks ]_vars

\* a release refused to a user who is not the owner; the lock is still there
C5_Witness ==
    /\ last.op = ReleaseOp
    /\ last.status = 403
    /\ last.body.error = "UNAUTHORIZED"
    /\ MapHas(locks, last.workflowId)
    /\ MapGet(locks, last.workflowId).userId # last.userId

Terminal == {"approved", "denied", "expired", "cancelled"}

\* C6. Request terminality: a request whose status is approved, denied,
\* expired or cancelled keeps that status in every later step in which it is
\* still stored, whichever ledger operation runs (respond, cancel, the
\* expiry sweep, getStats, the filtered reads, the retention sweep).
C6_RequestTerminality ==
    [][ \A e \in requests :
          e.val.status \in Terminal
          => \A f \in requests' : f.key = e.key => f.val.status = e.val.status ]_vars

\* a response was attempted on a request that had already left pending
C6_Witness ==
    /\ last.op = "respondToRequest"
    /\ last.thrown = "Request has already been responded to"
    /\ MapHas(requests, last.requestId)
    /\ MapGet(requests, last.requestId).status = "cancelled"

RespondOps == {"PUT /requests/:requestId/respond", "respond_edit_request"}

\* a step in which user u answers request id with `approved`, in either flow
IsRespondStep(id, u, approved) ==
    /\ last'.op \in RespondOps
    /\ last'.requestId = id
    /\ last'.userId = u
    /\ last'.approved = approved

\* C7. Approve cascades release: when the target user holds the live lock on
\* the request's workflow and approves the pending, unexpired request, in
\* either response flow, the workflow has no lock once the handler is done.
C7_ApproveCascadesRelease ==
    [][ \A id \in Ids :
          (/\ MapHas(requests, id)
           /\ MapGet(requests, id).status = "pending"
           /\ ~isRequestExpired(MapGet(requests, id), now)
           /\ MapHas(locks, MapGet(requests, id).workflowId)
           /\ MapGet(locks, MapGet(requests, id).workflowId).userId
                 = MapGet(requests, id).targetUserId
           /\ IsLive(MapGet(locks, MapGet(requests, id).workflowId), now)
           /\ IsRespondStep(id, MapGet(requests, id).targetUserId, TRUE))
          => ~MapHas(locks', MapGet(requests, id).workflowId) ]_vars

\* C8. Disconnect cascade: after the disconnect handler of a socket identified
\* as user C, no lock owned by C is left and C has no session.
C8_DisconnectCascade ==
    [][ \A s \in Sockets :
          (/\ last'.op = "disconnect"
           /\ last'.socket = s
           /\ sockets[s].userId # Undefined)
          => /\ \A e \in locks' : e.val.userId # sockets[s].userId
             /\ ~MapHas(users', sockets[s].userId) ]_vars

\* C9. Stale request expiry: a response (approve or deny) by the target to a
\* pending request past its expiresAt fails with the expiry error, the request
\* becomes expired with respondedAt and response unset, and no lock changes.
C9_StaleRequestExpiry ==
    [][ \A id \in Ids, approved \in BOOLEAN :
          (/\ MapHas(requests, id)
           /\ MapGet(requests, id).status = "pending"
           /\ now > MapGet(requests, id).expiresAt
           /\ IsRespondStep(id, MapGet(requests, id).targetUserId, approved))
          => /\ IF last'.op = "respond_edit_request"
                THEN last'.emit = "error" /\ last'.thrown = "Request has expired"
                ELSE last'.status = 500 /\ last'.error = "Request has expired"
             /\ MapHas(requests', id)
             /\ MapGet(requests', id)
                   = [MapGet(requests, id) EXCEPT !.status = "expired"]
             /\ MapGet(requests', id).respondedAt = None
             /\ locks' = locks ]_vars

\* an approval came too late: the request is expired, the target's lock stays
C9_Witness ==
    /\ last.op = "PUT /requests/:requestId/respond"
    /\ last.status = 500
    /\ last.approved = TRUE
    /\ last.error = "Request has expired"
    /\ MapHas(requests, last.requestId)
    /\ MapGet(requests, last.requestId).status = "expired"
    /\ MapHas(locks, MapGet(requests, last.requestId).workflowId)
    /\ MapGet(locks, MapGet(requests, last.requestId).workflowId).userId = last.userId

\* C10. Retention sweep: cleanupOldRequests(maxAge) removes exactly the
\* requests created before now - maxAge whose status is not pending, returns
\* how many it removed and changes no other request; pending ones all stay.
C10_RetentionSweep ==
    [][ last'.op = "cleanupOldRequests"
        => /\ requests' \subseteq requests
           /\ \A e \in requests :
                 (e \notin requests')
                 <=> (e.val.timestamp < now - last'.maxAge
                      /\ e.val.status \in Terminal)
           /\ last'.removedCount = Cardinality(requests) - Cardinality(requests')
           /\ \A e \in requests : e.val.status = "pending" => e \in requests' ]_vars

\* the sweep removed an old answered request and kept an equally old pending one
C10_Witness ==
    /\ last.op = "cleanupOldRequests"
    /\ last.removedCount = 1
    /\ \E e \in requests :
          /\ e.val.status = "pending"
          /\ e.val.timestamp < now - last.maxAge

\* C11. Periodic maintenance completeness: a tick of the cleanup timer runs
\* all four sweeps, so right after it the lock table holds no expired lock,
\* the presence registry no inactive session, and the ledger neither a pending
\* request past its expiresAt nor a terminal request older than the retention
\* window.
C11_MaintenanceCompleteness ==
    [][ last'.op = "cleanupTimer"
        => /\ \A e \in locks' : ~isLockExpired(e.val, now')
           /\ \A e \in users' : ~isUserInactive(e.val, now')
           /\ \A e \in requests' :
                 ~(e.val.status = "pending" /\ isRequestExpired(e.val, now'))
           /\ \A e \in requests' : ~IsOldRequest(e.val, now', defaultMaxAge) ]_vars

\* the handler answered the response with success (HTTP 200, no socket error)
RespondSucceeded(l) ==
    IF l.op = "respond_edit_request" THEN l.emit # "error" ELSE l.status = 200

\* C12. Best-effort release on approval: when the target approves a pending,
\* unexpired request whose workflow has no lock or a lock owned by another
\* user, in either response flow, the approval succeeds, the request is
\* approved and stamped, and the lock table is unchanged; an approval never
\* removes a lock owned by someone other than the responder.
C12_BestEffortRelease ==
    [][ \A id \in Ids :
          (/\ MapHas(requests, id)
           /\ MapGet(requests, id).status = "pending"
           /\ ~isRequestExpired(MapGet(requests, id), now)
           /\ IsRespondStep(id, MapGet(requests, id).targetUserId, TRUE))
          => /\ \A e \in locks : e.val.userId # last'.userId => e \in locks'
             /\ (\/ ~MapHas(locks, MapGet(requests, id).workflowId)
                 \/ MapGet(locks, MapGet(requests, id).workflowId).userId
                       # MapGet(requests, id).targetUserId)
                => /\ RespondSucceeded(last')
                   /\ MapHas(requests', id)
                   /\ MapGet(requests', id).status = "approved"
                   /\ MapGet(requests', id).respondedAt = Some(now)
                   /\ locks' = locks ]_vars

\* the target approved over a socket while the requester holds the lock
C12_Witness ==
    /\ last.op = "respond_edit_request"
    /\ last.emit = "request_response"
    /\ last.approved
    /\ ~last.released
    /\ MapHas(requests, last.requestId)
    /\ MapGet(requests, last.requestId).status = "approved"
    /\ MapHas(locks, MapGet(requests, last.requestId).workflowId)
    /\ MapGet(locks, MapGet(requests, last.requestId).workflowId).userId # last.userId

\* workflow w has a live lock at time t
HasLiveLock(L, t, w) == MapHas(L, w) /\ IsLive(MapGet(L, w), t)

\* C13. Edit-request creation precondition: a request enters the ledger only
\* in a step at whose instant the request's workflow has a live lock owned by
\* the request's targetUserId; a creation handler (POST /requests, socket
\* request_edit_access) that finds no such lock adds nothing to the ledger.
C13_CreationPrecondition ==
    [][ /\ \A e \in requests' :
              ~MapHas(requests, e.key)
              => /\ HasLiveLock(locks, now, e.val.workflowId)
                 /\ MapGet(locks, e.val.workflowId).userId = e.val.targetUserId
        /\ (/\ last'.op = "POST /requests"
            /\ ~(/\ HasLiveLock(locks, now, last'.workflowId)
                  /\ MapGet(locks, last'.workflowId).userId = last'.targetUserId))
           => requests' = requests
        /\ (/\ last'.op = "request_edit_access"
            /\ ~HasLiveLock(locks, now, last'.workflowId))
           => requests' = requests ]_vars

\* a request was created over the socket at the last live instant of the lock
C13_Witness ==
    /\ last.op = "request_edit_access"
    /\ last.emit = "request_sent"
    /\ MapHas(requests, last.data.id)
    /\ MapHas(locks, last.workflowId)
    /\ MapGet(locks, last.workflowId).userId = last.data.targetUserId
    /\ MapGet(locks, last.workflowId).expiresAt = now

\* C14. cancelRequest(requestId, userId): for an absent request it returns
\* false; for a request of another requester, or one that is not pending, it
\* raises to its caller and leaves the request as it was; otherwise it sets the
\* status to cancelled, stamps respondedAt and returns true.
C14_CancelOutcomes ==
    [][ last'.op = "cancelRequest"
        => LET id == last'.requestId
               request == MapGet(requests, id)
           IN  IF ~MapHas(requests, id)
               THEN /\ last'.thrown = Null
                    /\ last'.data = FALSE
                    /\ requests' = requests
               ELSE IF request.requesterId # last'.userId \/ request.status # "pending"
               THEN /\ last'.thrown # Null
                    /\ requests' = requests
               ELSE /\ last'.thrown = Null
                    /\ last'.data = TRUE
                    /\ requests' = MapSet(requests, id,
                                          [request EXCEPT !.status = "cancelled",
                                                          !.respondedAt = Some(now)]) ]_vars

\* C15. respondToRequest on an unknown id fails with "not found" and on a
\* request that is not pending fails with "already responded", in both cases
\* leaving every stored request as it was; a failing respondToRequest changes
\* the ledger only when the request was pending and past its expiresAt.
C15_RespondFailuresPure ==
    [][ last'.op = "respondToRequest"
        => LET id == last'.requestId IN
           /\ ~MapHas(requests, id)
              => last'.thrown = "Request not found" /\ requests' = requests
           /\ (MapHas(requests, id) /\ MapGet(requests, id).status # "pending")
              => /\ last'.thrown = "Request has already been responded to"
                 /\ requests' = requests
           /\ (last'.thrown # Null /\ requests' # requests)
              => /\ MapHas(requests, id)
                 /\ MapGet(requests, id).status = "pending"
                 /\ isRequestExpired(MapGet(requests, id), now)
                 /\ last'.thrown = "Request has expired" ]_vars

\* a response to an approved request that is past its expiresAt was refused
C15_Witness ==
    /\ last.op = "respondToRequest"
    /\ last.thrown = "Request has already been responded to"
    /\ MapHas(requests, last.requestId)
    /\ MapGet(requests, last.requestId).status = "approved"
    /\ isRequestExpired(MapGet(requests, last.requestId), now)

\* C16. Respond authorization: in both response flows a response to an
\* existing request by anyone other than its targetUserId is rejected as
\* unauthorized (HTTP 403, socket error), and the attempt changes neither the
\* request nor any lock.
C16_RespondAuthorization ==
    [][ \A id \in Ids :
          (/\ MapHas(requests, id)
           /\ last'.op \in RespondOps
           /\ last'.requestId = id
           /\ last'.userId # MapGet(requests, id).targetUserId)
          => /\ IF last'.op = "respond_edit_request"
                THEN /\ last'.emit = "error"
                     /\ last'.message = "Invalid request or unauthorized"
                ELSE last'.status = IF last'.userId = Undefined THEN 400 ELSE 403
             /\ requests' = requests
             /\ locks' = locks ]_vars

\* the requester tried to approve its own pending request over HTTP while the
\* target holds the lock
C16_Witness ==
    /\ last.op = "PUT /requests/:requestId/respond"
    /\ last.status = 403
    /\ last.approved
    /\ MapHas(requests, last.requestId)
    /\ MapGet(requests, last.requestId).status = "pending"
    /\ MapGet(requests, last.requestId).requesterId = last.userId
    /\ ~isRequestExpired(MapGet(requests, last.requestId), now)
    /\ HasLiveLock(locks, now, MapGet(requests, last.requestId).workflowId)

LockRequestOps == {LockOp, "request_lock"}

\* l records a lock request of user u for workflow w that reached requestLock
IsLockRequest(l, w, u) ==
    /\ l.op \in LockRequestOps
    /\ l.workflowId = w
    /\ l.userId = u
    /\ u # Undefined

\* C17. Atomic check-then-acquire: handlers run to completion, so of two
\* non-forced lock requests by different users for a workflow without a live
\* lock, in either flow and either order, the one handled first is granted the
\* lock and the one handled next, at the same instant, gets WORKFLOW_LOCKED
\* naming the first as holder and changes nothing; the table never holds two
\* locks for the workflow.
C17_AtomicAcquire ==
    [][ \A w \in Workflows, u \in Users :
          IsLockRequest(last', w, u) /\ ~last'.force
          => /\ ~HasLiveLock(locks, now, w)
                => /\ last'.body.success
                   /\ MapHas(locks', w)
                   /\ MapGet(locks', w).userId = u
             /\ \A v \in Users \ {u} :
                   (IsLockRequest(last, w, v) /\ ~last.force /\ last.body.success)
                   => /\ ~last'.body.success
                      /\ last'.body.error = "WORKFLOW_LOCKED"
                      /\ last'.body.lockInfo.userId = v
                      /\ locks' = locks
             /\ Cardinality(EntriesFor(locks', w)) <= 1 ]_vars

\* a socket request was refused at the very instant an HTTP request of the
\* other user had been granted the lock
C17_Witness ==
    /\ last.op = "request_lock"
    /\ last.userId # Undefined
    /\ ~last.force
    /\ ~last.body.success
    /\ last.body.error = "WORKFLOW_LOCKED"
    /\ last.body.lockInfo.acquiredAt = now
    /\ now > 0
    /\ MapGet(locks, last.workflowId).userId # last.userId

\* C18. Expiry-based liveness: once the time is past a lock's expiresAt, a
\* requestLock without force by any other user succeeds and makes that user
\* the owner of a fresh lock, whether or not a sweep or a read has purged the
\* stale entry before.
C18_ExpiredLockYields ==
    [][ \A w \in Workflows, u \in Users :
          (/\ MapHas(locks, w)
           /\ MapGet(locks, w).userId # u
           /\ now > MapGet(locks, w).expiresAt
           /\ IsLockStep(w, u, FALSE))
          => /\ last'.status = 200
             /\ last'.body.success
             /\ Cardinality(EntriesFor(locks', w)) = 1
             /\ MapGet(locks', w) = NewLock(w, u, now) ]_vars

\* a non-forced request found the stale entry of another user still in the
\* table and was granted the lock
C18_Witness ==
    /\ last.op = LockOp
    /\ last.status = 200
    /\ ~last.force
    /\ last.currentLock # None
    /\ last.currentLock[1].userId # last.userId
    /\ now > last.currentLock[1].expiresAt
    /\ MapGet(locks, last.workflowId).userId = last.userId

\* C19. Result reason of requestLock: with no live lock on the workflow (no
\* entry, or an expired one) the request creates the lock and reports
\* "acquired" whatever the force argument; "forcibly acquired" is reported only
\* when a live lock of a different user was overwritten.
C19_ResultReason ==
    [][ \A w \in Workflows, u \in Users, force \in BOOLEAN :
          IsLockStep(w, u, force)
          => /\ ~HasLiveLock(locks, now, w)
                => /\ last'.body.success
                   /\ last'.body.message = "Lock acquired successfully"
                   /\ MapGet(locks', w) = NewLock(w, u, now)
             /\ (last'.body.success /\ last'.body.message = "Lock forcibly acquired")
                => /\ HasLiveLock(locks, now, w)
                   /\ MapGet(locks, w).userId # u ]_vars

\* the field of a request that the filtered read `kind` compares with its key
ReadKeyOf(kind, request) ==
    CASE kind = "getRequestsForUser" -> request.targetUserId
      [] kind = "getRequestsByUser" -> request.requesterId
      [] kind = "getWorkflowRequests" -> request.workflowId

\* C20. Filtered request reads: getRequestsForUser, getRequestsByUser and
\* getWorkflowRequests return only stored requests that match their key, never
\* a pending request whose expiresAt has passed, always every unexpired
\* pending request that matches the key, and leave the ledger untouched.
C20_FilteredReads ==
    [][ last'.op \in ReadKinds
        => /\ requests' = requests
           /\ \A r \in last'.data :
                 /\ r \in MapVals(requests)
                 /\ ReadKeyOf(last'.op, r) = last'.key
                 /\ ~(r.status = "pending" /\ now > r.expiresAt)
           /\ \A e \in requests :
                 (/\ e.val.status = "pending"
                  /\ now <= e.val.expiresAt
                  /\ ReadKeyOf(last'.op, e.val) = last'.key)
                 => e.val \in last'.data ]_vars

\* a read for a target returned the request created just now and left out an
\* older one, still stored as pending, whose expiresAt has passed
C20_Witness ==
    /\ last.op = "getRequestsForUser"
    /\ \E r \in last.data : r.status = "pending" /\ r.timestamp = now
    /\ \E e \in requests :
          /\ e.val.targetUserId = last.key
          /\ e.val.status = "pending"
          /\ now > e.val.expiresAt
          /\ e.val \notin last.data

\* C21. cleanupExpiredRequests turns into expired exactly the requests that
\* are pending and past their expiresAt, returns exactly their ids, deletes
\* nothing and leaves every other request as it was.
C21_ExpirySweep ==
    [][ last'.op = "cleanupExpiredRequests"
        => /\ MapKeys(requests') = MapKeys(requests)
           /\ Cardinality(requests') = Cardinality(requests)
           /\ last'.data = {e.key : e \in {x \in requests :
                                 x.val.status = "pending" /\ now > x.val.expiresAt}}
           /\ \A e \in requests :
                 IF e.val.status = "pending" /\ now > e.val.expiresAt
                 THEN MapGet(requests', e.key) = [e.val EXCEPT !.status = "expired"]
                 ELSE e \in requests' ]_vars

\* the sweep expired a pending request and passed over an approved one that
\* is just as old
C21_Witness ==
    /\ last.op = "cleanupExpiredRequests"
    /\ last.data # {}
    /\ \E e \in requests :
          /\ e.key \notin last.data
          /\ e.val.status = "approved"
          /\ now > e.val.expiresAt

\* C22. A session's active status is derived at read time: no stored session,
\* and no session returned by getUser, carries an isActive flag that disagrees
\* with now - lastActivity <= inactivityTimeout.
C22_ActiveIsDerived ==
    /\ \A e \in users : e.val.isActive = ~isUserInactive(e.val, now)
    /\ (last.op = "GET /users/:userId" /\ last.status = 200)
       => last.data.isActive = ~isUserInactive(last.data, now)

\* C23. getAllUsers returns exactly the stored sessions with
\* now - lastActivity <= inactivityTimeout and getWorkflowUsers(w) exactly
\* those of them whose workflowId is w; neither returns an inactive session
\* and neither removes or changes a session.
C23_ActiveUserReads ==
    [][ /\ last'.op = "GET /users"
           => /\ users' = users
              /\ last'.data = {e.val : e \in {x \in users :
                                    now - x.val.lastActivity <= inactivityTimeout}}
        /\ last'.op = "GET /users/workflow/:workflowId"
           => /\ users' = users
              /\ last'.data = {e.val : e \in {x \in users :
                                    /\ now - x.val.lastActivity <= inactivityTimeout
                                    /\ x.val.workflowId = last'.workflowId}} ]_vars

\* the workflow's users were read when one session on it had been idle for
\* exactly the timeout (returned) and another for longer (left out, still
\* stored)
C23_Witness ==
    /\ last.op = "GET /users/workflow/:workflowId"
    /\ \E r \in last.data : now - r.lastActivity = inactivityTimeout
    /\ \E e \in users :
          /\ e.val.workflowId = last.workflowId
          /\ now - e.val.lastActivity > inactivityTimeout
          /\ e.val \notin last.data

\* C24. With a clock that does not go back, the lastActivity of a stored
\* session never decreases, whichever of registerUser, updateUserActivity,
\* updateUserWorkflow and updateUserMetadata is called for its userId; and
\* updateUserActivity for a userId without a session returns false and changes
\* nothing.
C24_LastActivityMonotone ==
    [][ /\ \A e \in users : \A f \in users' :
              f.key = e.key => f.val.lastActivity >= e.val.lastActivity
        /\ (last'.op = "updateUserActivity" /\ ~MapHas(users, last'.userId))
           => last'.data = FALSE /\ users' = users ]_vars

\* the metadata of a session registered earlier was updated: its lastActivity
\* moved up to now
C24_Witness ==
    /\ last.op = "updateUserMetadata"
    /\ last.data
    /\ MapGet(users, last.userId).lastActivity = now
    /\ MapGet(users, last.userId).connectedAt < now

\* C25. createRequest always succeeds and adds exactly one request: pending,
\* respondedAt and response unset, created now, expiresAt = now +
\* requestTimeout, stored under an id no request of the ledger has; every
\* request already in the ledger stays as it was.
C25_CreateRequest ==
    [][ last'.op = "createRequest"
        => /\ requests \subseteq requests'
           /\ Cardinality(requests') = Cardinality(requests) + 1
           /\ \A e \in requests' \ requests :
                 /\ e.key \notin MapKeys(requests)
                 /\ e.val = last'.data
                 /\ e.val.id = e.key
                 /\ e.val.status = "pending"
                 /\ e.val.respondedAt = None
                 /\ e.val.response = None
                 /\ e.val.timestamp = now
                 /\ e.val.expiresAt = now + requestTimeout ]_vars

\* a second request was created after the first one had been answered and
\* had aged past its expiresAt
C25_Witness ==
    /\ last.op = "createRequest"
    /\ MapHas(requests, last.data.id)
    /\ \E e \in requests :
          /\ e.key # last.data.id
          /\ e.val.status = "denied"
          /\ now > e.val.expiresAt

\* C26. An expired lock is absent for releaseLock too: releaseLock(w, u) on a
\* workflow whose stored lock is past its expiresAt fails with NO_LOCK for
\* every user u.
C26_ReleaseExpiredLock ==
    [][ \A w \in Workflows, u \in Users :
          (/\ MapHas(locks, w)
           /\ now > MapGet(locks, w).expiresAt
           /\ IsReleaseStep(w, u))
          => /\ ~last'.body.success
             /\ last'.body.error = "NO_LOCK" ]_vars

C28_RejectedRequestFrame ==
    [][ (/\ last'.op = LockOp
         /\ last'.status = 409
         /\ last'.body.error = "WORKFLOW_LOCKED")
        => /\ locks' = locks
           /\ MapHas(locks, last'.workflowId)
           /\ MapGet(locks', last'.workflowId).userId = last'.body.lockInfo.userId
           /\ MapGet(locks', last'.workflowId).acquiredAt = last'.body.lockInfo.acquiredAt
           /\ MapGet(locks', last'.workflowId).expiresAt = last'.body.lockInfo.expiresAt ]_vars

\* a request was rejected some time after the holder took the lock, while an
\* expired lock of another workflow was still in the table
C28_Witness ==
    /\ last.op = LockOp
    /\ last.status = 409
    /\ MapHas(locks, last.workflowId)
    /\ MapGet(locks, last.workflowId).acquiredAt < now
    /\ \E e \in locks : e.key # last.workflowId /\ isLockExpired(e.val, now)

\* C29. Presence refresh follows lock success only: in both lock-request
\* flows a granted request stamps the requester's session with the current
\* time and marks it active, changing no other session; when the requester
\* has no session the lock is granted all the same and the presence table
\* is unchanged; a failed lock request leaves the presence table unchanged.
C29_PresenceAfterLock ==
    [][ \A w \in Workflows, u \in Users :
          IsLockRequest(last', w, u)
          => IF last'.body.success
             THEN /\ MapHas(locks', w)
                  /\ MapGet(locks', w).userId = u
                  /\ MapKeys(users') = MapKeys(users)
                  /\ \A v \in MapKeys(users) \ {u} : MapGet(users', v) = MapGet(users, v)
                  /\ MapHas(users, u)
                     => MapGet(users', u) = [MapGet(users, u) EXCEPT !.lastActivity = now',
                                                                    !.isActive = TRUE]
             ELSE users' = users ]_vars

\* a request was rejected: the requester's session keeps its old stamp, the
\* holder's session carries the time the lock was granted, later than its
\* registration
C29_Witness ==
    /\ last.op \in LockRequestOps
    /\ last.userId # Undefined
    /\ ~last.body.success
    /\ MapHas(users, last.userId)
    /\ MapGet(users, last.userId).lastActivity < now
    /\ MapHas(locks, last.workflowId)
    /\ LET lock == MapGet(locks, last.workflowId) IN
         /\ MapHas(users, lock.userId)
         /\ MapGet(users, lock.userId).lastActivity = lock.acquiredAt
         /\ MapGet(users, lock.userId).connectedAt < lock.acquiredAt

\* a lock was granted over HTTP to a user who has no session
C29_NoSessionWitness ==
    /\ last.op = LockOp
    /\ last.userId # Undefined
    /\ last.body.success
    /\ ~MapHas(users, last.userId)
    /\ users # {}

UserLocksOp == "GET /locks/user/:userId"

\* C30 as stated. getUserLocks(userId) returns exactly the live locks owned
\* by userId, and its purge is scoped to that owner: locks owned by other
\* users, expired or not, are left in the table unchanged by the call.
C30_ScopedPurge ==
    [][ last'.op = UserLocksOp
        => /\ last'.data = {e.val : e \in {x \in locks : /\ x.val.userId = last'.userId
                                                         /\ IsLive(x.val, now)}}
           /\ \A e \in locks : e.val.userId # last'.userId => e \in locks' ]_vars

\* C30 as amended. getUserLocks(userId) returns exactly the live locks owned
\* by userId, and its purge is not scoped to that owner: the call removes
\* every expired lock in the table, whoever owns it, and leaves every live
\* lock, of any user, unchanged.
C30_UserLocksPurgeAll ==
    [][ last'.op = UserLocksOp
        => /\ last'.data = {e.val : e \in {x \in locks : /\ x.val.userId = last'.userId
                                                         /\ IsLive(x.val, now)}}
           /\ locks' = {e \in locks : IsLive(e.val, now)} ]_vars

\* the call returned a live lock of its user and purged an expired lock of
\* somebody else
C30_Witness ==
    /\ last.op = UserLocksOp
    /\ last.data # {}
    /\ last.purgedOwners # {}
    /\ last.userId \notin last.purgedOwners

\* C31. cleanupExpiredLocks removes and returns, as workflowId/userId pairs,
\* exactly the locks with now > expiresAt and leaves every live lock
\* unchanged; after getAllLocks no expired entry remains in the table and
\* the returned list is exactly the set of live locks.
C31_LockSweeps ==
    [][ /\ last'.op = "cleanupTimer"
           => /\ last'.expiredLocks = {[workflowId |-> e.key, userId |-> e.val.userId] :
                                          e \in {x \in locks : now > x.val.expiresAt}}
              /\ locks' = {e \in locks : IsLive(e.val, now)}
        /\ last'.op = "GET /locks"
           => /\ \A e \in locks' : IsLive(e.val, now)
              /\ last'.data = {e.val : e \in {x \in locks : IsLive(x.val, now)}}
              /\ locks' = {e \in locks : IsLive(e.val, now)} ]_vars

\* a sweep that removed one lock and left a live one in the table
C31_Witness ==
    /\ last.op = "cleanupTimer"
    /\ last.expiredLocks # {}
    /\ locks # {}
    /\ \A e \in locks : IsLive(e.val, now)

\* C32. cleanupInactiveUsers deletes and returns the ids of exactly the
\* sessions with now - lastActivity > 10 minutes and leaves every other
\* session unchanged; a heartbeat or a granted lock request stamps the
\* session with the current time, so a session whose last activity is less
\* than the timeout old is never evicted by the sweep.
C32_InactivitySweep ==
    [][ /\ last'.op = "cleanupTimer"
           => /\ last'.inactiveUsers =
                    {e.key : e \in {x \in users : now - x.val.lastActivity > 600000}}
              /\ users' = {e \in users : now - e.val.lastActivity <= 600000}
              /\ \A e \in users : now - e.val.lastActivity < inactivityTimeout
                                     => e \in users'
        /\ (\/ last'.op = "heartbeat"
            \/ last'.op = LockOp /\ last'.body.success)
           => (MapHas(users, last'.userId)
               => /\ MapHas(users', last'.userId)
                  /\ MapGet(users', last'.userId).lastActivity = now) ]_vars

\* a sweep more than a timeout after both users registered: it evicted the
\* idle one and kept the one whose activity was refreshed since
C32_Witness ==
    /\ last.op = "cleanupTimer"
    /\ last.inactiveUsers # {}
    /\ \E e \in users : /\ now - e.val.connectedAt > inactivityTimeout
                         /\ e.val.lastActivity > e.val.connectedAt

RespondOp == "PUT /requests/:requestId/respond"
CancelOp == "DELETE /requests/:requestId"

\* C34. Cancel/respond race: on a pending, unexpired request the requester's
\* cancel and the target's response each take effect when handled first; the
\* one handled second, finding the request cancelled or answered, fails and
\* changes neither the request nor the lock table; the target's lock is
\* released only by a response that approved the pending request, never by
\* a response handled after the cancel.
C34_CancelRespondRace ==
    [][ \A id \in MapKeys(requests) :
          LET request == MapGet(requests, id)
              open == request.status = "pending" /\ now <= request.expiresAt
          IN
          /\ (/\ last'.op = RespondOp
               /\ last'.requestId = id
               /\ last'.userId = request.targetUserId)
              => /\ open
                    => /\ last'.status = 200
                       /\ MapGet(requests', id).status
                             = (IF last'.approved THEN "approved" ELSE "denied")
                       /\ locks' = IF last'.approved
                                   THEN {e \in locks : ~(/\ e.key = request.workflowId
                                                          /\ e.val.userId = last'.userId)}
                                   ELSE locks
                 /\ request.status \in Terminal
                    => /\ last'.status = 500
                       /\ requests' = requests
                       /\ locks' = locks
          /\ (/\ last'.op = CancelOp
               /\ last'.requestId = id
               /\ last'.userId = request.requesterId)
              => /\ locks' = locks
                 /\ open
                    => /\ last'.status = 200
                       /\ MapGet(requests', id).status = "cancelled"
                 /\ request.status \in Terminal
                    => /\ last'.status = 404
                       /\ requests' = requests ]_vars

\* the cancel was handled first: the approval that came next was refused and
\* the target still holds the lock
C34_Witness ==
    /\ last.op = RespondOp
    /\ last.status = 500
    /\ last.approved
    /\ MapHas(requests, last.requestId)
    /\ MapGet(requests, last.requestId).status = "cancelled"
    /\ MapGet(requests, last.requestId).respondedAt = Some(now)
    /\ MapHas(locks, "wf1")
    /\ MapGet(locks, "wf1").userId = last.userId

\* the approval was handled first: the cancel that came next was refused and
\* the lock is gone
C34_RespondFirstWitness ==
    /\ last.op = CancelOp
    /\ last.status = 404
    /\ MapHas(requests, last.requestId)
    /\ MapGet(requests, last.requestId).status = "approved"
    /\ MapGet(requests, last.requestId).requesterId = last.userId
    /\ MapGet(requests, last.requestId).respondedAt = Some(now)
    /\ ~MapHas(locks, "wf1")

\* C35. Session removal on disconnect is keyed by userId only: when a socket
\* whose last identification was as userId disconnects, the session stored
\* under userId is removed whichever socket registered it, and every session
\* stored under another userId stays as it is, one this socket registered
\* under an earlier identification included.
C35_DisconnectByUserId ==
    [][ (last'.op = "disconnect" /\ last'.userId # Undefined)
        => /\ last'.userId = sockets[last'.socket].userId
           /\ ~MapHas(users', last'.userId)
           /\ users' = {e \in users : e.key # last'.userId} ]_vars

\* a socket disconnected after another socket had registered the same user:
\* that socket is still open and identified, and its user has no session
C35_Witness ==
    /\ last.op = "disconnect"
    /\ last.userId # Undefined
    /\ \E s \in Sockets \ {last.socket} :
          /\ sockets[s].state = "open"
          /\ sockets[s].userId = last.userId
    /\ ~MapHas(users, last.userId)

\* a socket identified as one user and then as another disconnected: the
\* first user's session, registered by the closed socket, is still stored
C35_ReidentifyWitness ==
    /\ last.op = "disconnect"
    /\ last.userId # Undefined
    /\ \E e \in users : e.val.socketId = last.socket /\ e.key # last.userId

\* C36. RequestManager.getStats is not a pure read: it changes every pending
\* request past its expiresAt to expired before counting, so after it no
\* stored request is both pending and past its expiresAt, and the reported
\* total equals pending + approved + denied + expired + cancelled; it changes
\* no other request and deletes none.
C36_StatsSweep ==
    [][ last'.op = "getStats"
        => /\ MapKeys(requests') = MapKeys(requests)
           /\ \A id \in MapKeys(requests) :
                 LET old == MapGet(requests, id) IN
                 MapGet(requests', id) =
                    IF old.status = "pending" /\ now > old.expiresAt
                    THEN [old EXCEPT !.status = "expired"]
                    ELSE old
           /\ \A e \in requests' : ~(e.val.status = "pending" /\ now > e.val.expiresAt)
           /\ last'.data.total = Cardinality(requests)
           /\ last'.data.total = last'.data.pending + last'.data.approved
                                   + last'.data.denied + last'.data.expired
                                   + last'.data.cancelled
           /\ last'.data.expired = Cardinality({e \in requests' : e.val.status = "expired"}) ]_vars

\* getStats met an overdue pending request, flipped it and counted it as
\* expired, next to a request it left alone
C36_Witness ==
    /\ last.op = "getStats"
    /\ last.flipped # {}
    /\ last.data.expired >= 1
    /\ last.data.total > Cardinality(last.flipped)

\* C37. cancelRequest ignores expiry: on a request stored as pending whose
\* expiresAt has passed, a cancel by its requester succeeds and sets status
\* cancelled, while a response fails with 'Request has expired' and sets
\* status expired; the terminal state of an overdue pending request is that
\* of the operation that touches it first.
C37_CancelIgnoresExpiry ==
    [][ \A id \in MapKeys(requests) :
          LET old == MapGet(requests, id) IN
          (old.status = "pending" /\ now > old.expiresAt)
          => /\ (/\ last'.op = "cancelRequest"
                  /\ last'.requestId = id
                  /\ last'.userId = old.requesterId)
                 => /\ last'.data = TRUE
                    /\ MapGet(requests', id) = [old EXCEPT !.status = "cancelled",
                                                          !.respondedAt = Some(now)]
             /\ (last'.op = "respondToRequest" /\ last'.requestId = id)
                 => /\ last'.thrown = "Request has expired"
                    /\ MapGet(requests', id) = [old EXCEPT !.status = "expired"] ]_vars

\* an overdue pending request was cancelled by its requester
C37_Witness ==
    /\ last.op = "cancelRequest"
    /\ last.data = TRUE
    /\ MapGet(requests, last.requestId).status = "cancelled"
    /\ MapGet(requests, last.requestId).respondedAt = Some(now)
    /\ now > MapGet(requests, last.requestId).expiresAt

\* an overdue pending request was answered first and became expired
C37_RespondWitness ==
    /\ last.op = "respondToRequest"
    /\ last.thrown = "Request has expired"
    /\ MapGet(requests, last.requestId).status = "expired"

\* C38. The filtered request reads filter on expiresAt alone: a stored
\* request in any status is left out of getRequestsForUser, getRequestsByUser
\* and getWorkflowRequests once now > expiresAt and is returned, if it matches
\* the key, up to then; getRequest(id) returns the stored request whatever
\* its age and status, and only cleanupOldRequests takes a request out of
\* the ledger.
C38_ReadsFilterOnExpiry ==
    [][ /\ last'.op \in ReadKinds
           => \A e \in requests :
                 e.val \in last'.data
                    <=> (ReadKeyOf(last'.op, e.val) = last'.key /\ now <= e.val.expiresAt)
        /\ last'.op = "getRequest"
           => /\ requests' = requests
              /\ \A e \in requests : e.key = last'.requestId => last'.data = Some(e.val)
              /\ ~MapHas(requests, last'.requestId) => last'.data = None
        /\ (MapKeys(requests) \ MapKeys(requests') # {})
           => last'.op = "cleanupOldRequests" ]_vars

\* getRequest returned an approved request whose expiresAt has passed
C38_Witness ==
    /\ last.op = "getRequest"
    /\ last.data # None
    /\ last.data[1].status = "approved"
    /\ now > last.data[1].expiresAt
    /\ MapHas(requests, last.requestId)

\* a read by requester left out a cancelled request past its expiresAt
C38_OmittedWitness ==
    /\ last.op = "getRequestsByUser"
    /\ \E e \in requests :
          /\ e.val.requesterId = last.key
          /\ e.val.status = "cancelled"
          /\ now > e.val.expiresAt
          /\ e.val \notin last.data

\* C39. Locks are independent of presence: cleanupInactiveUsers leaves the
\* lock table unchanged, the locks of the users it evicts included, and the
\* timer removes exactly the expired locks whoever is evicted; a lock request
\* by a user without a session that meets no live lock of another user is
\* granted; and a stored lock ceases to be its owner's only by the owner's
\* release, by a forced request of another user, or once its expiresAt has
\* passed.
C39_LocksIndependentOfPresence ==
    [][ /\ last'.op = "cleanupInactiveUsers" => locks' = locks
        /\ last'.op = "cleanupTimer" => locks' = {e \in locks : IsLive(e.val, now)}
        /\ (/\ last'.op = LockOp
             /\ last'.userId # Undefined
             /\ ~MapHas(users, last'.userId)
             /\ ~(\E e \in locks : /\ e.key = last'.workflowId
                                     /\ IsLive(e.val, now)
                                     /\ e.val.userId # last'.userId))
            => /\ last'.body.success
               /\ MapGet(locks', last'.workflowId).userId = last'.userId
               /\ ~MapHas(users', last'.userId)
        /\ \A e \in locks :
              ~(\E f \in locks' : f.key = e.key /\ f.val.userId = e.val.userId)
              => \/ /\ last'.op = ReleaseOp
                     /\ last'.workflowId = e.key
                     /\ last'.userId = e.val.userId
                 \/ /\ last'.op = LockOp
                     /\ last'.workflowId = e.key
                     /\ last'.userId # e.val.userId
                     /\ last'.force
                 \/ now > e.val.expiresAt ]_vars

\* the sweep evicted a user whose lock, taken through a session since
\* expired, is still in the table
C39_Witness ==
    /\ last.op = "cleanupInactiveUsers"
    /\ last.data # {}
    /\ \E e \in locks : e.val.userId \in last.data

\* a user who never had a session holds a live lock
C39_NoSessionWitness ==
    /\ users # {}
    /\ \E e \in locks : /\ ~MapHas(users, e.val.userId)
                         /\ IsLive(e.val, now)
                         /\ e.val.acquiredAt > 0
                         /\ \A s \in Sockets : sockets[s].userId # e.val.userId

\* C40. Approval does not transfer the lock: when the target, holding the
\* live lock, approves a pending, unexpired request in either response flow,
\* the workflow is left with no lock, not with one owned by the requester,
\* so that a requestLock by any user would succeed next, and every other
\* request in the ledger is left as it was.
C40_ApprovalLeavesUnlocked ==
    [][ \A id \in MapKeys(requests) :
          LET request == MapGet(requests, id)
              w == request.workflowId
          IN
          (/\ request.status = "pending"
           /\ now <= request.expiresAt
           /\ HasLiveLock(locks, now, w)
           /\ MapGet(locks, w).userId = request.targetUserId
           /\ IsRespondStep(id, request.targetUserId, TRUE))
          => /\ MapGet(requests', id).status = "approved"
             /\ ~MapHas(locks', w)
             /\ \A u \in Users : requestLock(locks', now, w, u, FALSE).res.success
             /\ \A e \in requests : e.key # id => e \in requests' ]_vars
====
